---- MODULE Spec2Model ----
(***************************************************************************)
(* The Fusion container of the CUDA fuser IR (fusion.cpp) and the          *)
(* topological traversal over it (iter_visitor.cpp).                       *)
(*                                                                         *)
(* Vals and Exprs are heap objects named by small integers (their          *)
(* addresses); 0 is nullptr.  A freed address can be handed out again by   *)
(* a later `new`.  Every operation of the Fusion is an operator from a     *)
(* "world" (the fusions and the heap) to a result record holding the world *)
(* after the call, whether the call returned or threw (TORCH_CHECK), and   *)
(* whether it dereferenced a freed object on the way.                      *)
(***************************************************************************)
EXTENDS Integers, Sequences, FiniteSets, TLC

\* ---- bounds of the model ------------------------------------------------
MaxVals == 3
MaxExprs == 2
NumFusions == 2
MaxIO == 1
MaxName == 3
MaxGuards == 1
MaxAxis == 1
MaxConst == 1
MaxOutputs == 2
MaxCopyVals == 2
MaxCopyExprs == 1
MaxNest == 3
NumThreads == 2
MaxBind == 2

ValIds == 1..MaxVals
ExprIds == 1..MaxExprs
FusionIds == 1..NumFusions
None == 0
BindValues == 1..MaxBind
\* the values the test expects of a sum or a negation of bound symbols
CheckValues == {0 - MaxBind, 2 * MaxBind}

\* the local `Fusion copy(other)` of the copy assignment
CopyTemp == NumFusions + 1

VARIABLES
  fusions,        \* the Fusion objects: FusionIds -> record of the members
  constructed,    \* the Fusion objects that are alive
  vals,           \* heap of Val objects: ValIds -> record of the members
  exprs,          \* heap of Expr objects: ExprIds -> record of the members
  ACTIVE_FUSION,  \* static thread_local Fusion* ACTIVE_FUSION; with several threads
                  \* (SpecThreads) one pointer for each thread, and `guards` likewise
  guards,         \* the live FusionGuards, innermost last: prev_fusion and the
                  \* Fusion the guard was constructed with
  crashed,        \* the process died on a use of a freed object, or hangs in a call
  eval_context,   \* the EvaluationContext of the evaluator tests: its bindings
                  \* and the results it keeps
  ret             \* what the last call was and what it returned

vars == <<fusions, constructed, vals, exprs, ACTIVE_FUSION, guards, crashed,
          eval_context, ret>>

\* ---- sequences ------------------------------------------------------------
SeqToSet(s) == {s[i] : i \in 1..Len(s)}

Reverse(s) == [i \in 1..Len(s) |-> s[Len(s) + 1 - i]]

NoDup(s) == \A i, j \in 1..Len(s) : i # j => s[i] # s[j]

Perms(S) == {s \in [1..Cardinality(S) -> S] : \A i, j \in 1..Cardinality(S) : i # j => s[i] # s[j]}

Min(S) == CHOOSE x \in S : \A y \in S : x <= y

\* std::deque::erase of the first element equal to x
EraseFirst(s, x) ==
  IF x \notin SeqToSet(s) THEN s
  ELSE LET k == Min({i \in 1..Len(s) : s[i] = x})
       IN  [i \in 1..(Len(s) - 1) |-> IF i < k THEN s[i] ELSE s[i + 1]]

\* ---- the objects ---------------------------------------------------------
\* A default-constructed Fusion.  val_type_name_map_ holds the counter of
\* the value kinds that are named apart (TensorView).  origin_ maps a Val that
\* is no key of the map to None; uses_keys_ holds the keys of the map uses_,
\* and uses_ maps a Val that is no key to the empty set.
EmptyFusion ==
  [val_set_ |-> {}, expr_set_ |-> {}, val_deque_ |-> <<>>,
   val_type_name_map_ |-> 0, val_name_counter_ |-> 0, expr_name_counter_ |-> 0,
   origin_ |-> [v \in ValIds |-> None], uses_ |-> [v \in ValIds |-> {}],
   uses_keys_ |-> {},
   inputs_ |-> <<>>, outputs_ |-> <<>>]

\* Freed (or never allocated) memory.
NoVal ==
  [fusion_ |-> None, name_ |-> 0, vtype |-> "Scalar", value |-> 0, bcast |-> FALSE,
   compute_at_view_ |-> None, relative_compute_at_axis_ |-> 0]

NoExpr == [fusion_ |-> None, name_ |-> 0, inputs_ |-> <<>>, outputs_ |-> <<>>]

World == [fusions |-> fusions, vals |-> vals, exprs |-> exprs]

\* ---- results of a call -----------------------------------------------------
Ok(W) == [w |-> W, ok |-> TRUE, ub |-> FALSE, name |-> 0]

OkName(W, n) == [w |-> W, ok |-> TRUE, ub |-> FALSE, name |-> n]

\* TORCH_CHECK(false, ...): the call throws, the world stays as it is then
Fail(W) == [w |-> W, ok |-> FALSE, ub |-> FALSE, name |-> 0]

\* the same, reached by reading a freed object
FailUB(W) == [w |-> W, ok |-> FALSE, ub |-> TRUE, name |-> 0]

\* ---- Fusion::inFusion ------------------------------------------------------
ValInFusion(W, f, v) ==
  W.vals[v].fusion_ = f /\ v \in W.fusions[f].val_set_

ExprInFusion(W, f, e) ==
  W.exprs[e].fusion_ = f /\ e \in W.fusions[f].expr_set_

\* ---- Val::sameAs -----------------------------------------------------------
sameAs(W, a, b) ==
  \/ a = b
  \/ /\ W.vals[a].vtype = "Scalar" /\ W.vals[b].vtype = "Scalar"
     /\ W.vals[a].value # 0 /\ W.vals[a].value = W.vals[b].value

\* ---- Fusion::getValName, Fusion::getExprName -------------------------------
\* getValName with the post-increment left out
getValNameNoAdvance(W, f, vtype) ==
  IF vtype = "TensorView"
  THEN OkName(W, W.fusions[f].val_type_name_map_)
  ELSE OkName(W, W.fusions[f].val_name_counter_)

getValName(W, f, vtype) ==
  IF vtype = "TensorView"
  THEN OkName([W EXCEPT !.fusions[f].val_type_name_map_ = @ + 1],
              W.fusions[f].val_type_name_map_)
  ELSE OkName([W EXCEPT !.fusions[f].val_name_counter_ = @ + 1],
              W.fusions[f].val_name_counter_)

getExprName(W, f) ==
  OkName([W EXCEPT !.fusions[f].expr_name_counter_ = @ + 1],
         W.fusions[f].expr_name_counter_)

\* ---- Fusion::registerVal ---------------------------------------------------
registerVal(W, f, v) ==
  IF W.vals[v].fusion_ # None /\ W.vals[v].fusion_ # f THEN Fail(W)
  ELSE IF W.vals[v].fusion_ # None /\ ValInFusion(W, f, v)
  THEN OkName(W, W.vals[v].name_)
  ELSE getValName([W EXCEPT !.fusions[f].val_set_ = @ \cup {v},
                            !.fusions[f].val_deque_ = Append(@, v)],
                  f, W.vals[v].vtype)

\* ---- Fusion::removeExpr ----------------------------------------------------
removeExpr(W, f, e) ==
  IF ~ExprInFusion(W, f, e)
  THEN (IF W.exprs[e].fusion_ = None THEN FailUB(W) ELSE Fail(W))
  ELSE
    LET outs == SeqToSet(W.exprs[e].outputs_)
        ins == SeqToSet(W.exprs[e].inputs_)
        F == W.fusions[f]
        F2 == [F EXCEPT
                 !.origin_ = [v \in ValIds |->
                                IF v \in outs /\ F.origin_[v] = e THEN None ELSE F.origin_[v]],
                 !.uses_ = [v \in ValIds |->
                                IF v \in ins THEN F.uses_[v] \ {e} ELSE F.uses_[v]],
                 !.expr_set_ = @ \ {e}]
    IN Ok([W EXCEPT !.fusions[f] = F2, !.exprs[e] = NoExpr])

\* ---- Fusion::registerExpr --------------------------------------------------
RECURSIVE LinkInputs(_, _, _, _)
LinkInputs(W, f, e, i) ==
  IF i > Len(W.exprs[e].inputs_) THEN Ok(W)
  ELSE LET input == W.exprs[e].inputs_[i]
       IN IF ~ValInFusion(W, f, input) THEN Fail(W)
          ELSE LinkInputs([W EXCEPT !.fusions[f].uses_[input] = @ \cup {e},
                                    !.fusions[f].uses_keys_ = @ \cup {input}], f, e, i + 1)

RECURSIVE LinkOutputs(_, _, _, _)
LinkOutputs(W, f, e, j) ==
  IF j > Len(W.exprs[e].outputs_) THEN Ok(W)
  ELSE LET output == W.exprs[e].outputs_[j]
       IN IF ~ValInFusion(W, f, output) THEN Fail(W)
          ELSE LET it == W.fusions[f].origin_[output]
                   r == IF it # None THEN removeExpr(W, f, it) ELSE Ok(W)
               IN IF ~r.ok THEN r
                  ELSE LinkOutputs([r.w EXCEPT !.fusions[f].origin_[output] = e], f, e, j + 1)

registerExpr(W, f, e) ==
  IF W.exprs[e].fusion_ # None /\ W.exprs[e].fusion_ # f THEN Fail(W)
  ELSE IF W.exprs[e].fusion_ # None /\ ExprInFusion(W, f, e)
  THEN OkName(W, W.exprs[e].name_)
  ELSE LET r1 == LinkInputs(W, f, e, 1)
       IN IF ~r1.ok THEN r1
          ELSE LET r2 == LinkOutputs(r1.w, f, e, 1)
               IN IF ~r2.ok THEN r2
                  ELSE getExprName([r2.w EXCEPT !.fusions[f].expr_set_ = @ \cup {e}], f)

\* ---- Fusion::removeVal -----------------------------------------------------
\* `order` is the order in which the copy of the unordered uses set is walked.
RECURSIVE RemoveUses(_, _, _, _)
RemoveUses(W, f, order, i) ==
  IF i > Len(order) THEN Ok(W)
  ELSE LET r == removeExpr(W, f, order[i])
       IN IF ~r.ok THEN r ELSE RemoveUses(r.w, f, order, i + 1)

UseOrders(W, f, v) ==
  LET orig == W.fusions[f].origin_[v]
  IN Perms(W.fusions[f].uses_[v] \ {orig})

removeValChecked(W, f, v) ==
  \/ \E i \in 1..Len(W.fusions[f].inputs_) : sameAs(W, v, W.fusions[f].inputs_[i])
  \/ \E i \in 1..Len(W.fusions[f].outputs_) : sameAs(W, v, W.fusions[f].outputs_[i])

\* removeVal with the check of the output list left out
removeValInputsOnly(W, f, v, order) ==
  IF ~ValInFusion(W, f, v) THEN Fail(W)
  ELSE IF \E i \in 1..Len(W.fusions[f].inputs_) : sameAs(W, v, W.fusions[f].inputs_[i])
  THEN Fail(W)
  ELSE LET orig == W.fusions[f].origin_[v]
           r1 == IF orig # None THEN removeExpr(W, f, orig) ELSE Ok(W)
       IN IF ~r1.ok THEN r1
          ELSE LET r2 == RemoveUses(r1.w, f, order, 1)
               IN IF ~r2.ok THEN r2
                  ELSE Ok([r2.w EXCEPT !.fusions[f].val_set_ = @ \ {v},
                                       !.fusions[f].val_deque_ = EraseFirst(@, v),
                                       !.vals[v] = NoVal])

removeVal(W, f, v, order) ==
  IF ~ValInFusion(W, f, v) THEN Fail(W)
  ELSE IF removeValChecked(W, f, v) THEN Fail(W)
  ELSE LET orig == W.fusions[f].origin_[v]
           r1 == IF orig # None THEN removeExpr(W, f, orig) ELSE Ok(W)
       IN IF ~r1.ok THEN r1
          ELSE LET r2 == RemoveUses(r1.w, f, order, 1)
               IN IF ~r2.ok THEN r2
                  ELSE Ok([r2.w EXCEPT !.fusions[f].val_set_ = @ \ {v},
                                       !.fusions[f].val_deque_ = EraseFirst(@, v),
                                       !.vals[v] = NoVal])

\* ---- Fusion::addInput, Fusion::addOutput -----------------------------------
addInput(W, f, v) ==
  IF ~ValInFusion(W, f, v) THEN Fail(W)
  ELSE IF W.fusions[W.vals[v].fusion_].origin_[v] # None THEN Fail(W)
  ELSE Ok([W EXCEPT !.fusions[f].inputs_ = Append(@, v)])

addOutput(W, f, v) ==
  IF ~ValInFusion(W, f, v) THEN Fail(W)
  ELSE IF W.vals[v].vtype = "TensorView" /\ W.vals[v].bcast THEN Fail(W)
  ELSE Ok([W EXCEPT !.fusions[f].outputs_ = Append(@, v)])

\* ---- Fusion::used, Fusion::origin --------------------------------------------
\* (both assert that the Val is in the fusion first)
used(W, f, v) == W.fusions[f].uses_[v] # {}

origin(W, f, v) == W.fusions[f].origin_[v]

\* ---- Fusion::hasInput, hasOutput, replaceInput, replaceOutput -----------------
hasInput(W, f, val) == val \in SeqToSet(W.fusions[f].inputs_)

hasOutput(W, f, val) == val \in SeqToSet(W.fusions[f].outputs_)

\* std::replace(first, last, old_value, new_value)
std_replace(s, old_value, new_value) ==
  [i \in 1..Len(s) |-> IF s[i] = old_value THEN new_value ELSE s[i]]

replaceInput(W, f, replace, with) ==
  Ok([W EXCEPT !.fusions[f].inputs_ = std_replace(@, replace, with)])

replaceOutput(W, f, replace, with) ==
  Ok([W EXCEPT !.fusions[f].outputs_ = std_replace(@, replace, with)])

\* ---- Fusion::assertInFusion ---------------------------------------------------
\* the result of a const member that asserts its Val and then reads a map
Asserted(W, f, val, value) ==
  IF ValInFusion(W, f, val) THEN [ok |-> TRUE, out |-> <<value>>]
  ELSE [ok |-> FALSE, out |-> <<>>]

Fusion_used(W, f, val) == Asserted(W, f, val, used(W, f, val))

unordered_uses(W, f, val) == Asserted(W, f, val, W.fusions[f].uses_[val])

Fusion_origin(W, f, val) == Asserted(W, f, val, origin(W, f, val))

\* ---- Fusion::clear ---------------------------------------------------------
\* clear with the three name counters left as they are
clearKeepCounters(W, f) ==
  LET F == W.fusions[f]
  IN Ok([W EXCEPT
           !.vals = [v \in ValIds |-> IF v \in F.val_set_ THEN NoVal ELSE W.vals[v]],
           !.exprs = [e \in ExprIds |-> IF e \in F.expr_set_ THEN NoExpr ELSE W.exprs[e]],
           !.fusions[f] = [EmptyFusion EXCEPT
                             !.val_type_name_map_ = F.val_type_name_map_,
                             !.val_name_counter_ = F.val_name_counter_,
                             !.expr_name_counter_ = F.expr_name_counter_]])

clear(W, f) ==
  LET F == W.fusions[f]
  IN Ok([W EXCEPT
           !.vals = [v \in ValIds |-> IF v \in F.val_set_ THEN NoVal ELSE W.vals[v]],
           !.exprs = [e \in ExprIds |-> IF e \in F.expr_set_ THEN NoExpr ELSE W.exprs[e]],
           !.fusions[f] = EmptyFusion])

\* ---- swap(Fusion&, Fusion&) --------------------------------------------------
\* swap with the fix-up of Statement::fusion_ left out
swapContentOnly(W, a, b) ==
  Ok([W EXCEPT !.fusions = [f \in DOMAIN W.fusions |->
                              IF f = a THEN W.fusions[b]
                              ELSE IF f = b THEN W.fusions[a] ELSE W.fusions[f]]])

swap(W, a, b) ==
  LET A == W.fusions[b]  \* what a holds after the swap
      B == W.fusions[a]  \* what b holds after the swap
      fixA == [v \in ValIds |-> IF v \in A.val_set_ THEN [W.vals[v] EXCEPT !.fusion_ = a]
                                ELSE W.vals[v]]
      fixAe == [e \in ExprIds |-> IF e \in A.expr_set_ THEN [W.exprs[e] EXCEPT !.fusion_ = a]
                                  ELSE W.exprs[e]]
  IN Ok([W EXCEPT
           !.fusions = [f \in DOMAIN W.fusions |->
                          IF f = a THEN W.fusions[b]
                          ELSE IF f = b THEN W.fusions[a] ELSE W.fusions[f]],
           !.vals = [v \in ValIds |-> IF v \in B.val_set_ /\ a # b
                                      THEN [fixA[v] EXCEPT !.fusion_ = b] ELSE fixA[v]],
           !.exprs = [e \in ExprIds |-> IF e \in B.expr_set_ /\ a # b
                                        THEN [fixAe[e] EXCEPT !.fusion_ = b] ELSE fixAe[e]]])

\* ---- Fusion::Fusion(const Fusion&) --------------------------------------------
\* IrCloner::clone makes one new node for every node it is handed; vmap and
\* emap are its table from those nodes to their clones.  It is handed the Vals
\* of val_set_ and the keys of uses_: removeVal leaves the key of a deleted Val
\* in uses_, so a key can point to freed memory (cloning it reads a freed
\* object) or to a Val that was allocated there since.
Injections(S, T) == {m \in [S -> T] : \A x, y \in S : x # y => m[x] # m[y]}

CloneOf(m, x) == IF x \in DOMAIN m THEN m[x] ELSE None

copy(W, this, other, vmap, emap) ==
  LET O == W.fusions[other]
      refs == UNION {O.uses_[v] : v \in ValIds} \cup ({O.origin_[v] : v \in ValIds} \ {None})
      pre(m, x) == CHOOSE y \in DOMAIN m : m[y] = x
      clonedVals == {vmap[v] : v \in O.val_set_}
      allClones == {vmap[v] : v \in O.val_set_ \cup O.uses_keys_}
      freed == {k \in O.uses_keys_ : W.vals[k].fusion_ = None}
      clonedExprs == {emap[e] : e \in O.expr_set_}
      F == [val_set_ |-> clonedVals,
            expr_set_ |-> clonedExprs,
            val_deque_ |-> [i \in 1..Len(O.val_deque_) |-> vmap[O.val_deque_[i]]],
            val_type_name_map_ |-> O.val_type_name_map_,
            val_name_counter_ |-> O.val_name_counter_,
            expr_name_counter_ |-> O.expr_name_counter_,
            origin_ |-> [v \in ValIds |-> IF v \in clonedVals
                                          THEN CloneOf(emap, O.origin_[pre(vmap, v)]) ELSE None],
            uses_ |-> [v \in ValIds |-> IF v \in allClones
                                        THEN {emap[e] : e \in O.uses_[pre(vmap, v)]} ELSE {}],
            uses_keys_ |-> {vmap[k] : k \in O.uses_keys_},
            inputs_ |-> [i \in 1..Len(O.inputs_) |-> vmap[O.inputs_[i]]],
            outputs_ |-> [i \in 1..Len(O.outputs_) |-> vmap[O.outputs_[i]]]]
  IN IF ~(refs \subseteq O.expr_set_) THEN FailUB(W)
     ELSE [w |-> [W EXCEPT
                !.fusions[this] = F,
                !.vals = [v \in ValIds |->
                            IF v \in allClones
                            THEN [W.vals[pre(vmap, v)] EXCEPT
                                    !.fusion_ = this,
                                    !.compute_at_view_ = CloneOf(vmap, @)]
                            ELSE W.vals[v]],
                !.exprs = [e \in ExprIds |->
                             IF e \in clonedExprs
                             THEN LET o == W.exprs[pre(emap, e)]
                                  IN [o EXCEPT
                                        !.fusion_ = this,
                                        !.inputs_ = [i \in 1..Len(o.inputs_) |-> vmap[o.inputs_[i]]],
                                        !.outputs_ = [i \in 1..Len(o.outputs_) |-> vmap[o.outputs_[i]]]]
                             ELSE W.exprs[e]]],
           ok |-> TRUE, ub |-> freed # {}, name |-> 0]

\* ---- Fusion::Fusion(Fusion&&) ---------------------------------------------------
\* `this` is a fresh object with empty members
moveConstruct(W, this, other) == swap(W, this, other)

\* ---- Fusion::operator=(const Fusion&) -------------------------------------------
copyAssign(W, this, other, vmap, emap) ==
  LET r == copy(W, CopyTemp, other, vmap, emap)
  IN IF ~r.ok THEN r
     ELSE clear(swap(clear(r.w, this).w, this, CopyTemp).w, CopyTemp)

\* ---- Fusion::operator=(Fusion&&) ------------------------------------------------
\* the move assignment with clear() left out
moveAssignNoClear(W, this, other) == swap(W, this, other)

moveAssign(W, this, other) == swap(clear(W, this).w, this, other)

\* ---- IterVisitor::next ---------------------------------------------------
\* A Statement* is a pair of the kind of the node and its address.
ValStmt(v) == <<"Val", v>>

ExprStmt(e) == <<"Expr", e>>

Stmts(kind, ids) == [i \in 1..Len(ids) |-> <<kind, ids[i]>>]

NextOk(stmts) == [ok |-> TRUE, ub |-> FALSE, stmts |-> stmts]

NextFail(ub) == [ok |-> FALSE, ub |-> ub, stmts |-> <<>>]

\* a next(Val*) for which no Val has a producing Expr
nextValOfLeaf(W, f, v) == NextOk(<<>>)

\* next(Val*): the producing Expr, if there is one
nextVal(W, f, v) ==
  IF ~ValInFusion(W, f, v) THEN NextFail(W.vals[v].fusion_ = None)
  ELSE IF origin(W, f, v) # None THEN NextOk(<<ExprStmt(origin(W, f, v))>>)
  ELSE NextOk(<<>>)

\* the key of the comparator of the stable_sort: the axis a TensorView input
\* is computed at in `out`, -1 for every other input
compute_at_axis(W, out, stmt) ==
  IF W.vals[stmt[2]].vtype = "TensorView" /\ W.vals[stmt[2]].compute_at_view_ = out
  THEN W.vals[stmt[2]].relative_compute_at_axis_
  ELSE -1

\* a sort of the same keys with the larger key first
RECURSIVE stable_sortDescending(_, _, _, _)
stable_sortDescending(W, out, stmts, k) ==
  IF k > MaxAxis THEN <<>>
  ELSE stable_sortDescending(W, out, stmts, k + 1)
         \o SelectSeq(stmts, LAMBDA x : compute_at_axis(W, out, x) = k)

\* std::stable_sort by that key: ascending keys, equal keys in their old order
RECURSIVE stable_sort(_, _, _, _)
stable_sort(W, out, stmts, k) ==
  IF k > MaxAxis THEN <<>>
  ELSE SelectSeq(stmts, LAMBDA x : compute_at_axis(W, out, x) = k)
         \o stable_sort(W, out, stmts, k + 1)

\* next(Expr*, respect_compute_at) that leaves out the inputs computed at the output
nextExprNotComputedAt(W, f, e, respect_compute_at) ==
  IF ~ExprInFusion(W, f, e) THEN NextFail(W.exprs[e].fusion_ = None)
  ELSE LET next_stmts == Stmts("Val", W.exprs[e].inputs_)
           out == W.exprs[e].outputs_[1]
       IN IF ~respect_compute_at THEN NextOk(next_stmts)
          ELSE IF Len(W.exprs[e].outputs_) # 1 THEN NextFail(FALSE)
          ELSE NextOk(SelectSeq(next_stmts, LAMBDA x : compute_at_axis(W, out, x) = -1))

\* next(Expr*, respect_compute_at): the inputs
nextExpr(W, f, e, respect_compute_at) ==
  IF ~ExprInFusion(W, f, e) THEN NextFail(W.exprs[e].fusion_ = None)
  ELSE LET next_stmts == Stmts("Val", W.exprs[e].inputs_)
           out == W.exprs[e].outputs_[1]
       IN IF ~respect_compute_at THEN NextOk(next_stmts)
          ELSE IF Len(W.exprs[e].outputs_) # 1 THEN NextFail(FALSE)
          ELSE IF W.vals[out].vtype = "TensorView"
          THEN NextOk(stable_sort(W, out, next_stmts, -1))
          ELSE NextOk(next_stmts)

next(W, f, stmt, respect_compute_at) ==
  IF stmt[1] = "Val" THEN nextVal(W, f, stmt[2])
  ELSE nextExpr(W, f, stmt[2], respect_compute_at)

remove_visited(stmts, visited) == SelectSeq(stmts, LAMBDA x : x \notin visited)

\* ---- ExprSort::handle ------------------------------------------------------
\* handle with the Expr put in front of the list
handlePushFront(t, stmt) ==
  IF stmt[1] = "Expr" THEN [t EXCEPT !.exprs = <<stmt[2]>> \o @] ELSE t

handle(t, stmt) ==
  IF stmt[1] = "Expr" THEN [t EXCEPT !.exprs = Append(@, stmt[2])] ELSE t

Back(s) == s[Len(s)]

PopBack(s) == SubSeq(s, 1, Len(s) - 1)

\* ---- DependencyChains::handle ------------------------------------------------
\* The visitor is called while the handled statement is still the back of
\* the top frame.
\* handle that takes every Val for a dependency
DependencyChains_handleAnyVal(t, stmt) ==
  IF stmt[1] = "Val"
  THEN LET backs == [i \in 1..Len(t.stmt_stack) |-> Back(t.stmt_stack[i])]
           deps == SelectSeq(backs, LAMBDA x : x[1] = "Val")
       IN [t EXCEPT !.is_dependency = TRUE,
                    !.dep_chains = Append(@, Reverse([i \in 1..Len(deps) |-> deps[i][2]]))]
  ELSE t

DependencyChains_handle(t, stmt) ==
  IF stmt[1] = "Val" /\ stmt[2] \in t.dependencies_
  THEN LET backs == [i \in 1..Len(t.stmt_stack) |-> Back(t.stmt_stack[i])]
           deps == SelectSeq(backs, LAMBDA x : x[1] = "Val")
       IN [t EXCEPT !.is_dependency = TRUE,
                    !.dep_chains = Append(@, Reverse([i \in 1..Len(deps) |-> deps[i][2]]))]
  ELSE t

\* ---- IterVisitor::traverseFrom ---------------------------------------------
\* The locals of the loop: stmt_stack (back() of a frame is its last element),
\* visited, all_inputs_visited, and the members of the visitors: what the
\* handlers have collected, and the dependencies a DependencyChains looks for
\* (none for the other visitors), and the dependencies_ of a Dependencies, at
\* which its next(Val*) stops (stop_at, none for the other visitors).
TraverseStart(from) ==
  [stmt_stack |-> <<Reverse(Stmts("Val", from))>>, visited |-> {},
   all_inputs_visited |-> FALSE, ok |-> TRUE, ub |-> FALSE,
   handled |-> <<>>, exprs |-> <<>>,
   dependencies_ |-> {}, is_dependency |-> FALSE, dep_chains |-> <<>>,
   stop_at |-> {}]

\* one pass through the body of the while loop
traverseStep(W, f, traverseAllPaths, respectComputeAt, t) ==
  LET top == Len(t.stmt_stack)
      current_inputs == t.stmt_stack[top]
  IN IF current_inputs = <<>>
     THEN [t EXCEPT !.stmt_stack = PopBack(@), !.all_inputs_visited = TRUE]
     ELSE
       LET stmt == Back(current_inputs)
       IN IF t.all_inputs_visited
          THEN LET h == DependencyChains_handle(handle(t, stmt), stmt)
               IN [h EXCEPT !.visited = @ \cup {stmt},
                            !.handled = Append(@, stmt),
                            !.stmt_stack[top] = PopBack(@),
                            !.all_inputs_visited = FALSE]
          ELSE
            LET n == IF stmt[1] = "Val" /\ stmt[2] \in t.stop_at THEN NextOk(<<>>)
                     ELSE next(W, f, stmt, respectComputeAt)
                next_stmts == IF traverseAllPaths THEN n.stmts
                              ELSE remove_visited(n.stmts, t.visited)
            IN IF ~n.ok THEN [t EXCEPT !.ok = FALSE, !.ub = n.ub]
               ELSE IF next_stmts = <<>> THEN [t EXCEPT !.all_inputs_visited = TRUE]
               ELSE [t EXCEPT !.stmt_stack = Append(@, Reverse(next_stmts)),
                              !.all_inputs_visited = FALSE]

\* The loop is about to expand a statement that a frame further down is
\* already waiting for: the statement is on a cycle, nothing on the cycle is
\* ever marked visited, and the stack grows without end.
NeverEnds(t) ==
  LET top == Len(t.stmt_stack)
  IN /\ top > 0 /\ t.stmt_stack[top] # <<>> /\ ~t.all_inputs_visited
     /\ \E i \in 1..(top - 1) : Back(t.stmt_stack[i]) = Back(t.stmt_stack[top])

TraverseResult(status, t) ==
  [status |-> status, ub |-> t.ub, exprs |-> t.exprs, handled |-> t.handled,
   dep_chains |-> t.dep_chains]

RECURSIVE traverseLoop(_, _, _, _, _)
traverseLoop(W, f, traverseAllPaths, respectComputeAt, t) ==
  IF ~t.ok THEN TraverseResult("threw", t)
  ELSE IF t.stmt_stack = <<>> THEN TraverseResult("returned", t)
  ELSE IF NeverEnds(t) THEN TraverseResult("never returns", t)
  ELSE traverseLoop(W, f, traverseAllPaths, respectComputeAt,
                    traverseStep(W, f, traverseAllPaths, respectComputeAt, t))

traverseFrom(W, f, from, traverseAllPaths, respectComputeAt) ==
  traverseLoop(W, f, traverseAllPaths, respectComputeAt, TraverseStart(from))

\* ---- AllVals, Exprs, Inputs ----------------------------------------------------------
\* the visitors of traverseFrom(fusion, from, false) that keep the Vals, the
\* Exprs, and the Vals without an origin they are handed
HandledVals(r) == {r.handled[i][2] : i \in {k \in DOMAIN r.handled : r.handled[k][1] = "Val"}}

AllVals_get(W, f, from) ==
  LET r == traverseFrom(W, f, from, FALSE, FALSE)
  IN [status |-> r.status, ub |-> r.ub, vals |-> HandledVals(r)]

Exprs_getExprs(W, f, from) ==
  LET r == traverseFrom(W, f, from, FALSE, FALSE)
  IN [status |-> r.status, ub |-> r.ub, exprs |-> r.exprs]

\* Inputs::getInputs(of), IterVisitor::getInputsTo(vals)
getInputsTo(W, of) ==
  IF of = <<>> THEN [status |-> "returned", ub |-> FALSE, inputs |-> {}]
  ELSE LET f == W.vals[of[1]].fusion_
           r == traverseFrom(W, f, of, FALSE, FALSE)
       IN [status |-> r.status, ub |-> r.ub,
           inputs |-> {v \in HandledVals(r) : W.fusions[W.vals[v].fusion_].origin_[v] = None}]

\* ---- BackwardVisitor ---------------------------------------------------------------
\* traversal_exprs_ is the list of Exprs::getExprs: the position of an Expr in
\* it is the value the map holds for the Expr
BackwardVisitor_nextExpr(W, expr) == Stmts("Val", W.exprs[expr].outputs_)

\* the Exprs of S in the order of their positions in traversal_exprs_
BackwardVisitor_nextVal(W, f, val, traversal_exprs_) ==
  Stmts("Expr", SelectSeq(traversal_exprs_, LAMBDA e : e \in W.fusions[f].uses_[val]))

BackwardVisitor_next(W, f, stmt, traversal_exprs_) ==
  IF stmt[1] = "Val" THEN BackwardVisitor_nextVal(W, f, stmt[2], traversal_exprs_)
  ELSE BackwardVisitor_nextExpr(W, stmt[2])

\* what next() of the back of the top frame leaves to do
BackwardVisitor_todo(W, f, traverseAllPaths, traversal_exprs_, t) ==
  LET n == BackwardVisitor_next(W, f, Back(Back(t.stmt_stack)), traversal_exprs_)
  IN IF traverseAllPaths THEN n ELSE remove_visited(n, t.visited)

\* a traversal that does not go down before it handles
BackwardVisitor_stay(W, f, traverseAllPaths, traversal_exprs_, t) == t

\* while (!next_stmts.empty()): traverse down until a leaf is at the top
RECURSIVE BackwardVisitor_down(_, _, _, _, _)
BackwardVisitor_down(W, f, traverseAllPaths, traversal_exprs_, t) ==
  LET next_stmts == BackwardVisitor_todo(W, f, traverseAllPaths, traversal_exprs_, t)
  IN IF next_stmts = <<>> THEN t
     ELSE BackwardVisitor_down(W, f, traverseAllPaths, traversal_exprs_,
                               [t EXCEPT !.stmt_stack = Append(@, Reverse(next_stmts))])

\* mark visited, handle and remove the back of the top frame
BackwardVisitor_handleBack(t) ==
  LET top == Len(t.stmt_stack)
      stmt == Back(t.stmt_stack[top])
  IN [t EXCEPT !.visited = @ \cup {stmt},
               !.handled = Append(@, stmt),
               !.stmt_stack[top] = PopBack(@)]

\* while (!stmt_stack_.empty() && stmt_stack_.back().empty()): traverse back up
RECURSIVE BackwardVisitor_up(_)
BackwardVisitor_up(t) ==
  IF t.stmt_stack = <<>> \/ Back(t.stmt_stack) # <<>> THEN t
  ELSE LET popped == [t EXCEPT !.stmt_stack = PopBack(@)]
       IN IF popped.stmt_stack = <<>> THEN popped
          ELSE BackwardVisitor_up(BackwardVisitor_handleBack(popped))

RECURSIVE BackwardVisitor_loop(_, _, _, _, _)
BackwardVisitor_loop(W, f, traverseAllPaths, traversal_exprs_, t) ==
  IF t.stmt_stack = <<>> THEN t
  ELSE BackwardVisitor_loop(W, f, traverseAllPaths, traversal_exprs_,
         BackwardVisitor_up(BackwardVisitor_handleBack(
           BackwardVisitor_down(W, f, traverseAllPaths, traversal_exprs_, t))))

\* BackwardVisitor::traverseFrom(fusion, from, traverseAllPaths); `order` is
\* the order in which the unordered set of inputs is walked
BackwardVisitor_traverseFrom(W, f, from, traverseAllPaths, order) ==
  LET vals_ == AllVals_get(W, f, from)
      exprs_ == Exprs_getExprs(W, f, from)
      inputs == getInputsTo(W, from)
      t0 == [stmt_stack |-> <<order>>, visited |-> {}, handled |-> <<>>]
  IN IF from = <<>> THEN [status |-> "returned", ub |-> FALSE, handled |-> <<>>]
     ELSE IF vals_.status # "returned"
       THEN [status |-> vals_.status, ub |-> vals_.ub, handled |-> <<>>]
     ELSE IF \E i \in DOMAIN exprs_.exprs :
               ~(SeqToSet(W.exprs[exprs_.exprs[i]].outputs_) \subseteq vals_.vals)
       THEN [status |-> "threw", ub |-> FALSE, handled |-> <<>>]
     ELSE IF inputs.status # "returned"
       THEN [status |-> inputs.status, ub |-> inputs.ub, handled |-> <<>>]
     ELSE [status |-> "returned", ub |-> FALSE,
           handled |-> BackwardVisitor_loop(W, f, traverseAllPaths, exprs_.exprs, t0).handled]

\* ---- IterVisitor::getTerminatingOutputs ------------------------------------
\* the traversal from all outputs, and the outputs no Expr it found consumes
getTerminatingOutputs(W, f) ==
  LET r == traverseFrom(W, f, W.fusions[f].outputs_, FALSE, FALSE)
      used_vals == UNION {SeqToSet(W.exprs[r.exprs[i]].inputs_) : i \in 1..Len(r.exprs)}
  IN [r EXCEPT !.exprs = <<>>, !.handled = <<>>] @@
     [terminating_outputs |-> SeqToSet(W.fusions[f].outputs_) \ used_vals]

\* ---- IterVisitor::traverse_ ------------------------------------------------
\* `order` is the order in which the unordered set of outputs is walked.
NoTraversal(status) ==
  [status |-> status, ub |-> FALSE, exprs |-> <<>>, handled |-> <<>>, dep_chains |-> <<>>]

\* traverse_ starting from the unused Vals whatever from_outputs_only says
traverse_FromLeaves(W, f, from_outputs_only, breadth_first, traverse_all_paths, respect_compute_at, order) ==
  IF breadth_first THEN NoTraversal("threw")
  ELSE LET leaves == SelectSeq(W.fusions[f].val_deque_, LAMBDA v : ~used(W, f, v))
       IN IF leaves # <<>>
          THEN traverseFrom(W, f, leaves, traverse_all_paths, respect_compute_at)
          ELSE NoTraversal("returned")

traverse_(W, f, from_outputs_only, breadth_first, traverse_all_paths, respect_compute_at, order) ==
  IF breadth_first THEN NoTraversal("threw")
  ELSE IF from_outputs_only
  THEN LET term_outs == getTerminatingOutputs(W, f)
           term_val_outs == SelectSeq(order, LAMBDA v : v \in term_outs.terminating_outputs)
       IN IF term_outs.status # "returned" THEN [NoTraversal(term_outs.status) EXCEPT !.ub = term_outs.ub]
          ELSE IF term_val_outs # <<>>
          THEN traverseFrom(W, f, term_val_outs, traverse_all_paths, respect_compute_at)
          ELSE NoTraversal("returned")
  ELSE LET leaves == SelectSeq(W.fusions[f].val_deque_, LAMBDA v : ~used(W, f, v))
       IN IF leaves # <<>>
          THEN traverseFrom(W, f, leaves, traverse_all_paths, respect_compute_at)
          ELSE NoTraversal("returned")

\* ---- ExprSort::getExprs, Fusion::exprs ---------------------------------------
getExprs(W, f, from_outputs_only, breadth_first, respect_compute_at, order) ==
  traverse_(W, f, from_outputs_only, breadth_first, FALSE, respect_compute_at, order)

Fusion_exprs(W, f, from_outputs_only, breadth_first, respect_compute_at, order) ==
  IF breadth_first THEN NoTraversal("threw")
  ELSE getExprs(W, f, from_outputs_only, breadth_first, respect_compute_at, order)

\* ---- Fusion::hasRNG, Fusion::hasGridReduction ------------------------------------
\* The loops over exprs(true), given what that call returned.  The operator
\* type of an Expr and the axes of a TensorView are not among the members
\* above: rand_like are the Exprs that are a UnaryOp of UnaryOpType::RandLike,
\* grid_reduced the TensorViews with a grid reduction.
hasRNG(exprs_true, rand_like) ==
  \E i \in DOMAIN exprs_true : exprs_true[i] \in rand_like

hasGridReduction(W, exprs_true, grid_reduced) ==
  \E i \in DOMAIN exprs_true :
    \E out \in SeqToSet(W.exprs[exprs_true[i]].outputs_) :
      W.vals[out].vtype = "TensorView" /\ out \in grid_reduced

\* ---- IRPrinter::printHeader --------------------------------------------------------
\* What is written between "(" and ")": a parameter for a Val ("Tensor<..> T3",
\* "float f0"), the fixed parameters, and ", ".
Param(kind, val) == [kind |-> kind, val |-> val]

Comma == Param(", ", None)

\* the loop over vals from its i-th element on
RECURSIVE printVals(_, _, _)
printVals(W, vals_, i) ==
  IF i > Len(vals_) THEN <<>>
  ELSE <<Param(W.vals[vals_[i]].vtype, vals_[i])>>
       \o (IF vals_[i] # vals_[Len(vals_)] THEN <<Comma>> ELSE <<>>)
       \o printVals(W, vals_, i + 1)

\* r is what the calls of fusion->exprs(true) return
printHeader(W, f, r, rand_like, grid_reduced) ==
  LET vals_ == W.fusions[f].inputs_ \o W.fusions[f].outputs_
      rng == hasRNG(r.exprs, rand_like)
      grid == hasGridReduction(W, r.exprs, grid_reduced)
      freed == \E i \in DOMAIN vals_ : W.vals[vals_[i]].fusion_ = None
  IN [status |-> r.status, ub |-> freed \/ r.ub,
      hasRNG |-> rng, hasGridReduction |-> grid,
      os |-> printVals(W, vals_, 1)
             \o (IF rng
                 THEN <<Comma, Param("seed", None), Comma, Param("offset", None)>>
                 ELSE <<>>)
             \o (IF grid
                 THEN <<Comma, Param("work_buf", None), Comma, Param("sync_flags", None)>>
                 ELSE <<>>)]

\* ---- DependencyChains, DependencyCheck ------------------------------------------
\* DependencyChains(_dependency, _of, all_chains_): the traversal from _of in
\* the Fusion of _of
DependencyChains(W, dependency, of, all_chains_) ==
  traverseLoop(W, W.vals[of].fusion_, all_chains_, FALSE,
               [TraverseStart(<<of>>) EXCEPT !.dependencies_ = {dependency}])

\* getDependencyChain with the chain in the order from `of` to the dependency
getDependencyChainOfFirst(W, dependency, of) ==
  LET dp == DependencyChains(W, dependency, of, FALSE)
  IN [status |-> dp.status, ub |-> dp.ub,
      chain |-> IF dp.dep_chains = <<>> THEN <<>> ELSE Reverse(dp.dep_chains[1])]

getDependencyChain(W, dependency, of) ==
  LET dp == DependencyChains(W, dependency, of, FALSE)
  IN [status |-> dp.status, ub |-> dp.ub,
      chain |-> IF dp.dep_chains = <<>> THEN <<>> ELSE dp.dep_chains[1]]

\* Dependencies::getAllVals(dependencies, of), DependencyCheck::getAllValsBetween
getAllValsBetween(W, dependencies, of) ==
  IF of = <<>> THEN [status |-> "returned", ub |-> FALSE, vals |-> {}]
  ELSE LET r == traverseLoop(W, W.vals[of[1]].fusion_, FALSE, FALSE,
                             [TraverseStart(of) EXCEPT !.stop_at = dependencies])
       IN [status |-> r.status, ub |-> r.ub, vals |-> HandledVals(r)]

isDependencyOf(W, dependency, of) ==
  LET r == getDependencyChain(W, dependency, of)
  IN [status |-> r.status, ub |-> r.ub, value |-> r.chain # <<>>]

getSingleDependencyChain(W, dependency, of) == getDependencyChain(W, dependency, of)

\* ---- FusionGuard::FusionGuard, ~FusionGuard, getCurFusion ----------------------
\* the new guard and the active fusion after its construction
FusionGuardCtor(active, fusion) ==
  [guard |-> [prev_fusion |-> active, fusion |-> fusion], active |-> fusion]

\* a destructor that sets the active fusion to nullptr
FusionGuardDtorToNull(guard) == None

\* the active fusion after the destruction of the guard
FusionGuardDtor(guard) == guard.prev_fusion

getCurFusion(active) == active

\* ---- InputsOf, Fusion::inputsOf, Fusion::validateInputs ------------------------------
\* `active` is what FusionGuard::getCurFusion() returns when the call is made.
\* InputsOf::output(fusion, output_): the traversal runs in the active Fusion,
\* and handle asks the Fusion active during the traversal, which is the same
\* one, for the origin; with no active Fusion the first next(Val*)
\* dereferences a null pointer.
InputsOf_output(W, active, fusion, output_) ==
  IF ~hasOutput(W, fusion, output_)
  THEN [status |-> "threw", ub |-> FALSE, inputs |-> {}]
  ELSE IF getCurFusion(active) = None
  THEN [status |-> "undefined", ub |-> TRUE, inputs |-> {}]
  ELSE LET r == traverseFrom(W, getCurFusion(active), <<output_>>, FALSE, FALSE)
       IN [status |-> r.status, ub |-> r.ub,
           inputs |-> {v \in HandledVals(r) : W.fusions[getCurFusion(active)].origin_[v] = None}]

inputsOf(W, active, f, val) == InputsOf_output(W, active, f, val)

\* Val::isConstScalar(): a scalar made with a value
isConstScalar(W, v) == W.vals[v].vtype = "Scalar" /\ W.vals[v].value # 0

validateInputs(W, active, f) ==
  LET outs == W.fusions[f].outputs_
      rs == [i \in DOMAIN outs |-> inputsOf(W, active, f, outs[i])]
      failed == {i \in DOMAIN outs : rs[i].status # "returned"}
      first == CHOOSE i \in failed : \A j \in failed : i <= j
      all_inputs == UNION {rs[i].inputs : i \in DOMAIN outs}
  IN IF failed # {} THEN [status |-> rs[first].status, ub |-> rs[first].ub]
     ELSE IF \E input \in all_inputs : ~isConstScalar(W, input) /\ ~hasInput(W, f, input)
     THEN [status |-> "threw", ub |-> FALSE]
     ELSE [status |-> "returned", ub |-> FALSE]

\* ---- thread_local -------------------------------------------------------------
Threads == 1..NumThreads

\* one pointer for all threads
SharedStatic(t) == 1

\* the instance of ACTIVE_FUSION that thread t reads and writes
ThreadLocal(t) == t

\* the counter that names the Vals of a kind
ValCounter(F, vtype) ==
  IF vtype = "TensorView" THEN F.val_type_name_map_ ELSE F.val_name_counter_

\* the active fusion after the k innermost guards were destroyed in reverse
\* order of their construction
RECURSIVE unwind(_, _, _)
unwind(active, gs, k) ==
  IF k = 0 THEN active
  ELSE unwind(FusionGuardDtor(gs[Len(gs)]), SubSeq(gs, 1, Len(gs) - 1), k - 1)

\* ---- EvaluationContext, ExpressionEvaluator -------------------------------------
\* c10::optional<Int::ScalarType>
nullopt == [has_value |-> FALSE, value |-> 0]

optional(n) == [has_value |-> TRUE, value |-> n]

\* EvaluationContext eval_context(&fusion): no binding yet.  values_ are the
\* results an evaluation keeps: one call of evaluate() starts with none.
\* checked_ is no member: it holds, for each Val, the values that the calls of
\* checkIntValue have read for it so far.
EmptyContext ==
  [fusion_ |-> 1, bindings_ |-> [v \in ValIds |-> nullopt],
   values_ |-> [v \in ValIds |-> nullopt],
   checked_ |-> [v \in ValIds |-> {}]]

\* a bind that takes every Val
bindUnchecked(W, ctx, v, n) ==
  [ctx |-> [ctx EXCEPT !.bindings_[v] = optional(n)], ok |-> TRUE]

\* eval_context.bind(v, n): throws for a Val that is no symbolic integer
\* scalar of the fusion, or that an Expr of the fusion computes
bind(W, ctx, v, n) ==
  IF \/ ~ValInFusion(W, ctx.fusion_, v)
     \/ W.vals[v].vtype # "Scalar"
     \/ W.vals[v].value # 0
     \/ origin(W, ctx.fusion_, v) # None
  THEN [ctx |-> ctx, ok |-> FALSE]
  ELSE [ctx |-> [ctx EXCEPT !.bindings_[v] = optional(n)], ok |-> TRUE]

\* the operators of the test on the shapes of the model: UnaryOp is
\* UnaryOpType::Neg, BinaryOp is BinaryOpType::Add
applyOp(xs) == IF Len(xs) = 1 THEN 0 - xs[1] ELSE xs[1] + xs[2]

\* The value of v: a constant has its own, a bound symbol its binding, a
\* kept result is taken as it is, a Val with an origin is computed from the
\* inputs of the origin, and anything else has none.  `path` are the Vals
\* whose origin is being resolved: on meeting one again the recursion goes on
\* for ever.
RECURSIVE evaluateVal(_, _, _, _, _)
evaluateVal(W, ctx, values_, v, path) ==
  LET e == origin(W, ctx.fusion_, v)
      ins == [i \in 1..Len(W.exprs[e].inputs_) |->
                evaluateVal(W, ctx, values_, W.exprs[e].inputs_[i], path \cup {v})]
  IN IF W.vals[v].vtype # "Scalar" THEN [status |-> "returned", value |-> nullopt]
     ELSE IF W.vals[v].value # 0
       THEN [status |-> "returned", value |-> optional(W.vals[v].value)]
     ELSE IF ctx.bindings_[v].has_value
       THEN [status |-> "returned", value |-> ctx.bindings_[v]]
     ELSE IF values_[v].has_value
       THEN [status |-> "returned", value |-> values_[v]]
     ELSE IF e = None THEN [status |-> "returned", value |-> nullopt]
     ELSE IF v \in path THEN [status |-> "never returns", value |-> nullopt]
     ELSE IF \E i \in DOMAIN ins : ins[i].status = "never returns"
       THEN [status |-> "never returns", value |-> nullopt]
     ELSE IF \E i \in DOMAIN ins : ~ins[i].value.has_value
       THEN [status |-> "returned", value |-> nullopt]
     ELSE [status |-> "returned",
           value |-> optional(applyOp([i \in DOMAIN ins |-> ins[i].value.value]))]

\* an evaluate that keeps the results of derived Vals in the context and
\* starts from the kept ones
evaluateFromKept(W, ctx, v) ==
  LET r == evaluateVal(W, ctx, ctx.values_, v, {})
      derived == origin(W, ctx.fusion_, v) # None /\ ~ctx.bindings_[v].has_value
  IN [ctx |-> IF derived /\ r.value.has_value
              THEN [ctx EXCEPT !.values_[v] = r.value] ELSE ctx,
      status |-> r.status, value |-> r.value]

\* ExpressionEvaluator::evaluate(v, &eval_context): the results of the call
\* are gone with the call, the context is read only
evaluate(W, ctx, v) ==
  LET r == evaluateVal(W, ctx, EmptyContext.values_, v, {})
  IN [ctx |-> ctx, status |-> r.status, value |-> r.value]

\* ---- operator new --------------------------------------------------------
\* The addresses a `new` can return: any free one.  Free addresses that no
\* pointer refers to any more are interchangeable, so the least stands for
\* them all; a free address that is still pointed to is a choice of its own.
ExprRefs(W) ==
  UNION {{W.fusions[f].origin_[v] : v \in ValIds} \cup UNION {W.fusions[f].uses_[v] : v \in ValIds}
         : f \in FusionIds}

ValRefs(W) ==
  {W.vals[v].compute_at_view_ : v \in ValIds} \cup UNION {W.fusions[f].uses_keys_ : f \in FusionIds}

NewAddrs(free, refs) ==
  (free \cap refs) \cup (IF free \ refs = {} THEN {} ELSE {Min(free \ refs)})

NewValAddrs(W) == NewAddrs({v \in ValIds : W.vals[v].fusion_ = None}, ValRefs(W))

NewExprAddrs(W) == NewAddrs({e \in ExprIds : W.exprs[e].fusion_ = None}, ExprRefs(W))

\* The addresses n consecutive `new` can return.
RECURSIVE LeastN(_, _)
LeastN(S, n) ==
  IF n = 0 \/ S = {} THEN {} ELSE {Min(S)} \cup LeastN(S \ {Min(S)}, n - 1)

CloneAddrs(free, refs, n) == (free \cap refs) \cup LeastN(free \ refs, n)

\* the tables an IrCloner can end up with when it clones the nodes of `other`
ValClones(W, other) ==
  Injections(W.fusions[other].val_set_ \cup W.fusions[other].uses_keys_,
             CloneAddrs({v \in ValIds : W.vals[v].fusion_ = None}, ValRefs(W),
                        Cardinality(W.fusions[other].val_set_ \cup W.fusions[other].uses_keys_)))

ExprClones(W, other) ==
  Injections(W.fusions[other].expr_set_,
             CloneAddrs({e \in ExprIds : W.exprs[e].fusion_ = None}, ExprRefs(W),
                        Cardinality(W.fusions[other].expr_set_)))

\* ---- the calls as actions ------------------------------------------------
Ret(op, f, a, ok, out) == [op |-> op, f |-> f, a |-> a, ok |-> ok, out |-> out]

\* The world after a call that returned or threw; a call that read freed
\* memory may also have killed the process.
Commit(r) ==
  \/ /\ fusions' = r.w.fusions /\ vals' = r.w.vals /\ exprs' = r.w.exprs
     /\ crashed' = FALSE
  \/ /\ r.ub
     /\ crashed' = TRUE
     /\ UNCHANGED <<fusions, vals, exprs>>

\* The kinds of Val a client makes: a symbolic scalar, a constant scalar, a
\* TensorView without and with a broadcast axis in its root domain.
ScalarKinds ==
  {[vtype |-> "Scalar", value |-> c, bcast |-> FALSE] : c \in 0..MaxConst}

TensorKinds ==
  {[vtype |-> "TensorView", value |-> 0, bcast |-> b] : b \in BOOLEAN}

\* new Float(), new Float(c), new TensorView(...): the Val constructor takes
\* the active fusion and registers itself there.
NewVal(kinds) ==
  /\ ~crashed /\ ACTIVE_FUSION # None
  /\ \E v \in NewValAddrs(World), k \in kinds :
       LET f == ACTIVE_FUSION
           cnt == IF k.vtype = "TensorView" THEN fusions[f].val_type_name_map_
                  ELSE fusions[f].val_name_counter_
           W0 == [World EXCEPT !.vals[v] = [NoVal EXCEPT !.fusion_ = f, !.vtype = k.vtype,
                                                         !.value = k.value, !.bcast = k.bcast]]
           r == registerVal(W0, f, v)
           W1 == [r.w EXCEPT !.vals[v].name_ = r.name]
       IN /\ cnt < MaxName
          /\ Commit([r EXCEPT !.w = W1])
          /\ ret' = Ret("registerVal", f, <<v>>, r.ok, <<>>)
  /\ UNCHANGED <<constructed, ACTIVE_FUSION, guards, eval_context>>

\* The shapes of Expr: UnaryOp(o, a), BinaryOp(o, a, b), and the test's
\* DummyExpr(o, p, a, b) with two outputs.
UnaryShapes(operands) ==
  {[inputs_ |-> <<a>>, outputs_ |-> <<o>>] : a \in operands, o \in operands}

BinaryShapes(operands) ==
  {[inputs_ |-> <<a, b>>, outputs_ |-> <<o>>] : a \in operands, b \in operands, o \in operands}

DummyShapes(operands) ==
  {s \in {[inputs_ |-> <<a, b>>, outputs_ |-> <<o, p>>] :
            a \in operands, b \in operands, o \in operands, p \in operands} :
     s.outputs_[1] # s.outputs_[2]}

\* new UnaryOp(...), new BinaryOp(...), new DummyExpr(...) at address e: the
\* Expr constructor takes the active fusion, stores its operands and
\* registers itself; when the registration throws, the object is freed again.
NewExprCall(e, s) ==
  /\ ~crashed /\ ACTIVE_FUSION # None
  /\ e \in NewExprAddrs(World)
  /\ LET f == ACTIVE_FUSION
         W0 == [World EXCEPT !.exprs[e] = [fusion_ |-> f, name_ |-> 0,
                                           inputs_ |-> s.inputs_, outputs_ |-> s.outputs_]]
         r == registerExpr(W0, f, e)
         W1 == IF r.ok THEN [r.w EXCEPT !.exprs[e].name_ = r.name]
               ELSE [r.w EXCEPT !.exprs[e] = NoExpr]
         gone == {x \in fusions[f].expr_set_ : x \notin W1.fusions[f].expr_set_}
     IN /\ fusions[f].expr_name_counter_ < MaxName
        /\ Commit([r EXCEPT !.w = W1])
        /\ ret' = Ret("registerExpr", f, <<e>>, r.ok, <<Cardinality(gone)>>)
  /\ UNCHANGED <<constructed, ACTIVE_FUSION, guards, eval_context>>

NewExprOf(shapes) == \E e \in ExprIds, s \in shapes : NewExprCall(e, s)

LiveVals == {v \in ValIds : vals[v].fusion_ # None}

\* the Vals of the active fusion
LocalVals == IF ACTIVE_FUSION = None THEN {} ELSE fusions[ACTIVE_FUSION].val_set_

RemoveExpr(targets) ==
  /\ ~crashed
  /\ \E f \in targets \cap constructed, e \in ExprIds :
       /\ exprs[e].fusion_ # None
       /\ LET r == removeExpr(World, f, e)
          IN /\ Commit(r)
             /\ ret' = Ret("removeExpr", f, <<e>>, r.ok, <<>>)
  /\ UNCHANGED <<constructed, ACTIVE_FUSION, guards, eval_context>>

RemoveVal(targets) ==
  /\ ~crashed
  /\ \E f \in targets \cap constructed, v \in LiveVals :
       \E order \in UseOrders(World, f, v) :
         LET r == removeVal(World, f, v, order)
         IN /\ Commit(r)
            /\ ret' = Ret("removeVal", f, <<v>>, r.ok, <<>>)
  /\ UNCHANGED <<constructed, ACTIVE_FUSION, guards, eval_context>>

AddInput(targets) ==
  /\ ~crashed
  /\ \E f \in targets \cap constructed, v \in LiveVals :
       /\ Len(fusions[f].inputs_) < MaxIO
       /\ LET r == addInput(World, f, v)
          IN /\ Commit(r)
             /\ ret' = Ret("addInput", f, <<v>>, r.ok, <<>>)
  /\ UNCHANGED <<constructed, ACTIVE_FUSION, guards, eval_context>>

AddOutput(targets, cap) ==
  /\ ~crashed
  /\ \E f \in targets \cap constructed, v \in LiveVals :
       /\ Len(fusions[f].outputs_) < cap
       /\ LET r == addOutput(World, f, v)
          IN /\ Commit(r)
             /\ ret' = Ret("addOutput", f, <<v>>, r.ok, <<>>)
  /\ UNCHANGED <<constructed, ACTIVE_FUSION, guards, eval_context>>

\* fusion.registerVal(v), fusion.registerExpr(e) on a node that exists already;
\* `out` is the name the call returned
RegisterVal(targets) ==
  /\ ~crashed
  /\ \E f \in targets \cap constructed, v \in LiveVals :
       LET r == registerVal(World, f, v)
       IN /\ Commit(r)
          /\ ret' = Ret("registerVal again", f, <<v>>, r.ok, <<r.name>>)
  /\ UNCHANGED <<constructed, ACTIVE_FUSION, guards, eval_context>>

RegisterExpr(targets) ==
  /\ ~crashed
  /\ \E f \in targets \cap constructed, e \in ExprIds :
       /\ exprs[e].fusion_ # None
       /\ LET r == registerExpr(World, f, e)
          IN /\ Commit(r)
             /\ ret' = Ret("registerExpr again", f, <<e>>, r.ok, <<r.name>>)
  /\ UNCHANGED <<constructed, ACTIVE_FUSION, guards, eval_context>>

\* fusion.clear(); `out` is the number of nodes the Fusion owned
Clear(targets) ==
  /\ ~crashed
  /\ \E f \in targets \cap constructed :
       LET r == clear(World, f)
       IN /\ Commit(r)
          /\ ret' = Ret("clear", f, <<>>, TRUE,
                        <<Cardinality(fusions[f].val_set_) + Cardinality(fusions[f].expr_set_)>>)
  /\ UNCHANGED <<constructed, ACTIVE_FUSION, guards, eval_context>>

\* TensorView::computeAt(consumer, axis) on a TensorView that the Expr
\* producing `consumer` reads: the TensorView records the consumer and the axis.
ComputeAt ==
  /\ ~crashed /\ ACTIVE_FUSION # None
  /\ \E tv \in LocalVals, consumer \in LocalVals, axis \in 0..MaxAxis :
       LET f == ACTIVE_FUSION
           e == fusions[f].origin_[consumer]
       IN /\ vals[tv].vtype = "TensorView" /\ vals[consumer].vtype = "TensorView"
          /\ tv # consumer
          /\ e # None /\ tv \in SeqToSet(exprs[e].inputs_)
          /\ vals' = [vals EXCEPT ![tv].compute_at_view_ = consumer,
                                  ![tv].relative_compute_at_axis_ = axis]
          /\ ret' = Ret("computeAt", f, <<tv, consumer, axis>>, TRUE, <<>>)
  /\ UNCHANGED <<fusions, constructed, exprs, ACTIVE_FUSION, guards, crashed, eval_context>>

\* fusion.exprs(from_outputs_only, breadth_first, respect_compute_at); a call
\* that never returns leaves the process hanging.
CallExprs(targets) ==
  /\ ~crashed
  /\ \E f \in targets \cap constructed :
       \E from_outputs_only \in BOOLEAN, breadth_first \in BOOLEAN, respect_compute_at \in BOOLEAN :
         \E order \in Perms(SeqToSet(fusions[f].outputs_)) :
           LET r == Fusion_exprs(World, f, from_outputs_only, breadth_first,
                                 respect_compute_at, order)
           IN /\ ret' = Ret("exprs", f, <<from_outputs_only, breadth_first, respect_compute_at>>,
                            r.status = "returned", r.exprs)
              /\ crashed' \in {r.status = "never returns"} \cup (IF r.ub THEN {TRUE} ELSE {})
  /\ UNCHANGED <<fusions, constructed, vals, exprs, ACTIVE_FUSION, guards, eval_context>>

\* DependencyCheck::isDependencyOf(dependency, of) and
\* DependencyCheck::getSingleDependencyChain(dependency, of) on Vals of the
\* active Fusion; `out` is the answer, or the chain.
CallIsDependencyOf ==
  /\ ~crashed
  /\ \E dependency \in LocalVals, of \in LocalVals :
       LET r == isDependencyOf(World, dependency, of)
       IN /\ ret' = Ret("isDependencyOf", ACTIVE_FUSION, <<dependency, of>>,
                        r.status = "returned", <<r.value>>)
          /\ crashed' \in {r.status = "never returns"} \cup (IF r.ub THEN {TRUE} ELSE {})
  /\ UNCHANGED <<fusions, constructed, vals, exprs, ACTIVE_FUSION, guards, eval_context>>

CallGetSingleDependencyChain ==
  /\ ~crashed
  /\ \E dependency \in LocalVals, of \in LocalVals :
       LET r == getSingleDependencyChain(World, dependency, of)
       IN /\ ret' = Ret("getSingleDependencyChain", ACTIVE_FUSION, <<dependency, of>>,
                        r.status = "returned", r.chain)
          /\ crashed' \in {r.status = "never returns"} \cup (IF r.ub THEN {TRUE} ELSE {})
  /\ UNCHANGED <<fusions, constructed, vals, exprs, ACTIVE_FUSION, guards, eval_context>>

CallGetAllValsBetween ==
  /\ ~crashed
  /\ \E dependencies \in SUBSET LocalVals, a \in LocalVals, b \in LocalVals :
       LET of == IF a = b THEN <<a>> ELSE <<a, b>>
           r == getAllValsBetween(World, dependencies, of)
       IN /\ ret' = Ret("getAllValsBetween", ACTIVE_FUSION, <<dependencies, of>>,
                        r.status = "returned", <<r.vals>>)
          /\ crashed' \in {r.status = "never returns"} \cup (IF r.ub THEN {TRUE} ELSE {})
  /\ UNCHANGED <<fusions, constructed, vals, exprs, ACTIVE_FUSION, guards, eval_context>>

\* ---- the evaluator ------------------------------------------------------------
\* eval_context.bind(v, n) on a Val of the fusion
Bind ==
  /\ ~crashed
  /\ \E v \in fusions[eval_context.fusion_].val_set_, n \in BindValues :
       LET r == bind(World, eval_context, v, n)
       IN /\ eval_context' = r.ctx
          /\ ret' = Ret("bind", eval_context.fusion_, <<v, n>>, r.ok, <<>>)
  /\ UNCHANGED <<fusions, constructed, vals, exprs, ACTIVE_FUSION, guards, crashed>>

\* ExpressionEvaluator::evaluate(v, &eval_context) on a Val of the fusion;
\* `out` is the optional it returns
Evaluate ==
  /\ ~crashed
  /\ \E v \in fusions[eval_context.fusion_].val_set_ :
       LET r == evaluate(World, eval_context, v)
       IN /\ eval_context' = r.ctx
          /\ crashed' = (r.status = "never returns")
          /\ ret' = Ret("evaluate", eval_context.fusion_, <<v>>, r.status = "returned",
                        <<r.value>>)
  /\ UNCHANGED <<fusions, constructed, vals, exprs, ACTIVE_FUSION, guards>>

\* checkIntValue(&eval_context, v, expected): evaluate, and the TORCH_CHECKs
\* that the result has a value and that it is the expected one
CheckIntValue ==
  /\ ~crashed
  /\ \E v \in fusions[eval_context.fusion_].val_set_, expected_value \in CheckValues :
       LET r == evaluate(World, eval_context, v)
           noted == IF r.status = "returned" /\ r.value.has_value
                    THEN {r.value.value} ELSE {}
       IN /\ eval_context' = [r.ctx EXCEPT !.checked_[v] = @ \cup noted]
          /\ crashed' = (r.status = "never returns")
          /\ ret' = Ret("checkIntValue", eval_context.fusion_, <<v, expected_value>>,
                        /\ r.status = "returned" /\ r.value.has_value
                        /\ r.value.value = expected_value,
                        <<r.value>>)
  /\ UNCHANGED <<fusions, constructed, vals, exprs, ACTIVE_FUSION, guards>>

\* ---- the kernel header -----------------------------------------------------------
\* IRPrinter::printHeader(&fusion, kernel_name); `a` holds what hasRNG() and
\* hasGridReduction() returned, `out` the parameter list as written
PrintHeader(targets) ==
  /\ ~crashed
  /\ \E f \in targets \cap constructed :
       \E order \in Perms(SeqToSet(fusions[f].outputs_)) :
         LET exprs_true == Fusion_exprs(World, f, TRUE, FALSE, FALSE, order)
         IN \E rand_like \in SUBSET fusions[f].expr_set_,
               grid_reduced \in SUBSET {v \in fusions[f].val_set_ : vals[v].vtype = "TensorView"} :
              LET r == printHeader(World, f, exprs_true, rand_like, grid_reduced)
              IN /\ ret' = Ret("printHeader", f, <<r.hasRNG, r.hasGridReduction>>,
                               r.status = "returned", r.os)
                 /\ crashed' \in {r.status = "never returns"}
                                   \cup (IF r.ub THEN {TRUE} ELSE {})
  /\ UNCHANGED <<fusions, constructed, vals, exprs, ACTIVE_FUSION, guards, eval_context>>

\* ---- the calls that only read, and the replacements ------------------------------
\* fusion.used(v), fusion.unordered_uses(v), fusion.origin(v), fusion.hasInput(v),
\* fusion.hasOutput(v) on any live Val; `out` is what the call returned
Query(targets) ==
  /\ ~crashed
  /\ \E f \in targets \cap constructed, v \in LiveVals :
       \/ LET r == Fusion_used(World, f, v)
          IN ret' = Ret("used", f, <<v>>, r.ok, r.out)
       \/ LET r == unordered_uses(World, f, v)
          IN ret' = Ret("unordered_uses", f, <<v>>, r.ok, r.out)
       \/ LET r == Fusion_origin(World, f, v)
          IN ret' = Ret("origin", f, <<v>>, r.ok, r.out)
       \/ ret' = Ret("hasInput", f, <<v>>, TRUE, <<hasInput(World, f, v)>>)
       \/ ret' = Ret("hasOutput", f, <<v>>, TRUE, <<hasOutput(World, f, v)>>)
  /\ UNCHANGED <<fusions, constructed, vals, exprs, ACTIVE_FUSION, guards, crashed,
                 eval_context>>

\* fusion.replaceInput(replace, with), fusion.replaceOutput(replace, with)
ReplaceInput(targets) ==
  /\ ~crashed
  /\ \E f \in targets \cap constructed, replace \in LiveVals, with \in LiveVals :
       LET r == replaceInput(World, f, replace, with)
       IN /\ Commit(r)
          /\ ret' = Ret("replaceInput", f, <<replace, with>>, r.ok, <<>>)
  /\ UNCHANGED <<constructed, ACTIVE_FUSION, guards, eval_context>>

ReplaceOutput(targets) ==
  /\ ~crashed
  /\ \E f \in targets \cap constructed, replace \in LiveVals, with \in LiveVals :
       LET r == replaceOutput(World, f, replace, with)
       IN /\ Commit(r)
          /\ ret' = Ret("replaceOutput", f, <<replace, with>>, r.ok, <<>>)
  /\ UNCHANGED <<constructed, ACTIVE_FUSION, guards, eval_context>>

\* ---- a traversal of its own ---------------------------------------------------------
\* IterVisitor::traverseFrom(fusion, from, traverseAllPaths, respectComputeAt) by
\* a visitor that notes every statement it is handed; `out` is what it was
\* handed, in that order
CallTraverseFrom(targets) ==
  /\ ~crashed
  /\ \E f \in targets \cap constructed :
       \E a \in fusions[f].val_set_, b \in fusions[f].val_set_,
          traverseAllPaths \in BOOLEAN, respectComputeAt \in BOOLEAN :
         LET from == IF a = b THEN <<a>> ELSE <<a, b>>
             r == traverseFrom(World, f, from, traverseAllPaths, respectComputeAt)
         IN /\ ret' = Ret("traverseFrom", f, <<from, traverseAllPaths, respectComputeAt>>,
                          r.status = "returned", r.handled)
            /\ crashed' \in {r.status = "never returns"} \cup (IF r.ub THEN {TRUE} ELSE {})
  /\ UNCHANGED <<fusions, constructed, vals, exprs, ACTIVE_FUSION, guards, eval_context>>

\* BackwardVisitor::traverseFrom(fusion, from, traverseAllPaths) by a visitor
\* that notes every statement it is handed
CallBackwardTraverseFrom(targets) ==
  /\ ~crashed
  /\ \E f \in targets \cap constructed :
       \E a \in fusions[f].val_set_, b \in fusions[f].val_set_, traverseAllPaths \in BOOLEAN :
         LET from == IF a = b THEN <<a>> ELSE <<a, b>>
         IN \E order \in Perms({<<"Val", v>> : v \in getInputsTo(World, from).inputs}) :
              LET r == BackwardVisitor_traverseFrom(World, f, from, traverseAllPaths, order)
              IN /\ ret' = Ret("BackwardVisitor::traverseFrom", f, <<from, traverseAllPaths>>,
                               r.status = "returned", r.handled)
                 /\ crashed' \in {r.status = "never returns"}
                                   \cup (IF r.ub THEN {TRUE} ELSE {})
  /\ UNCHANGED <<fusions, constructed, vals, exprs, ACTIVE_FUSION, guards, eval_context>>

\* fusion.inputsOf(val) and fusion.validateInputs() under whatever Fusion is
\* active; the active Fusion is noted with the arguments
CallInputsOf(targets) ==
  /\ ~crashed
  /\ \E f \in targets \cap constructed :
     \E val \in fusions[f].val_set_ :
       LET r == inputsOf(World, ACTIVE_FUSION, f, val)
       IN /\ ret' = Ret("inputsOf", f, <<val, ACTIVE_FUSION>>, r.status = "returned", <<r.inputs>>)
          /\ crashed' \in {r.status = "never returns"} \cup (IF r.ub THEN {TRUE} ELSE {})
  /\ UNCHANGED <<fusions, constructed, vals, exprs, ACTIVE_FUSION, guards, eval_context>>

CallValidateInputs(targets) ==
  /\ ~crashed
  /\ \E f \in targets \cap constructed :
       LET r == validateInputs(World, ACTIVE_FUSION, f)
       IN /\ ret' = Ret("validateInputs", f, <<ACTIVE_FUSION>>, r.status = "returned", <<>>)
          /\ crashed' \in {r.status = "never returns"} \cup (IF r.ub THEN {TRUE} ELSE {})
  /\ UNCHANGED <<fusions, constructed, vals, exprs, ACTIVE_FUSION, guards, eval_context>>

\* ---- FusionGuard -----------------------------------------------------------
\* FusionGuard g(&f); at most cap guards are alive
GuardEnter(cap) ==
  /\ ~crashed /\ Len(guards) < cap
  /\ \E f \in constructed :
       /\ guards' = Append(guards, FusionGuardCtor(ACTIVE_FUSION, f).guard)
       /\ ACTIVE_FUSION' = FusionGuardCtor(ACTIVE_FUSION, f).active
       /\ ret' = Ret("FusionGuard", f, <<>>, TRUE, <<>>)
  /\ UNCHANGED <<fusions, constructed, vals, exprs, crashed, eval_context>>

\* the innermost guard goes out of scope
GuardExit ==
  /\ ~crashed /\ Len(guards) > 0
  /\ ACTIVE_FUSION' = FusionGuardDtor(guards[Len(guards)])
  /\ guards' = SubSeq(guards, 1, Len(guards) - 1)
  /\ ret' = Ret("~FusionGuard", ACTIVE_FUSION, <<>>, TRUE, <<>>)
  /\ UNCHANGED <<fusions, constructed, vals, exprs, crashed, eval_context>>

\* An exception leaves k scopes at once: their guards are destroyed innermost
\* first.  `a` is the Fusion that was active when it was thrown, `out` is k.
Unwind ==
  /\ ~crashed
  /\ \E k \in 2..Len(guards) :
       /\ ACTIVE_FUSION' = unwind(ACTIVE_FUSION, guards, k)
       /\ guards' = SubSeq(guards, 1, Len(guards) - k)
       /\ ret' = Ret("unwind", unwind(ACTIVE_FUSION, guards, k), <<ACTIVE_FUSION>>, FALSE, <<k>>)
  /\ UNCHANGED <<fusions, constructed, vals, exprs, crashed, eval_context>>

\* ---- the calls of several threads -----------------------------------------------
\* Thread t runs FusionGuard g(&f);
ThreadGuardEnter ==
  /\ ~crashed
  /\ \E t \in Threads, f \in constructed :
       LET g == FusionGuardCtor(ACTIVE_FUSION[ThreadLocal(t)], f)
       IN /\ Len(guards[t]) < MaxGuards + 1
          /\ guards' = [guards EXCEPT ![t] = Append(@, g.guard)]
          /\ ACTIVE_FUSION' = [ACTIVE_FUSION EXCEPT ![ThreadLocal(t)] = g.active]
          /\ ret' = Ret("FusionGuard", f, <<t>>, TRUE, <<>>)
  /\ UNCHANGED <<fusions, constructed, vals, exprs, crashed, eval_context>>

\* the innermost guard of thread t goes out of scope
ThreadGuardExit ==
  /\ ~crashed
  /\ \E t \in Threads :
       /\ Len(guards[t]) > 0
       /\ ACTIVE_FUSION' = [ACTIVE_FUSION EXCEPT
                              ![ThreadLocal(t)] = FusionGuardDtor(guards[t][Len(guards[t])])]
       /\ guards' = [guards EXCEPT ![t] = SubSeq(@, 1, Len(@) - 1)]
       /\ ret' = Ret("~FusionGuard", ACTIVE_FUSION[ThreadLocal(t)], <<t>>, TRUE, <<>>)
  /\ UNCHANGED <<fusions, constructed, vals, exprs, crashed, eval_context>>

\* thread t runs new Float(): the Val registers itself in the Fusion that
\* getCurFusion returns on that thread
ThreadNewVal(kinds) ==
  /\ ~crashed
  /\ \E t \in Threads, v \in NewValAddrs(World), k \in kinds :
       LET f == getCurFusion(ACTIVE_FUSION[ThreadLocal(t)])
           W0 == [World EXCEPT !.vals[v] = [NoVal EXCEPT !.fusion_ = f, !.vtype = k.vtype,
                                                         !.value = k.value, !.bcast = k.bcast]]
           r == registerVal(W0, f, v)
           W1 == [r.w EXCEPT !.vals[v].name_ = r.name]
       IN /\ f # None
          /\ ValCounter(fusions[f], k.vtype) < MaxName
          /\ Commit([r EXCEPT !.w = W1])
          /\ ret' = Ret("registerVal", f, <<v, t>>, r.ok, <<>>)
  /\ UNCHANGED <<constructed, ACTIVE_FUSION, guards, eval_context>>

\* ---- construction, destruction, copy, move, swap ----------------------------
\* Fusion f;
Construct ==
  /\ ~crashed
  /\ \E f \in FusionIds \ constructed :
       /\ constructed' = constructed \cup {f}
       /\ ret' = Ret("Fusion", f, <<>>, TRUE, <<>>)
  /\ UNCHANGED <<fusions, vals, exprs, ACTIVE_FUSION, guards, crashed, eval_context>>

\* f goes out of scope; no guard refers to it any more
Destroy ==
  /\ ~crashed
  /\ \E f \in constructed \ ({ACTIVE_FUSION} \cup {guards[i].prev_fusion : i \in 1..Len(guards)}) :
       /\ Commit(clear(World, f))
       /\ constructed' = constructed \ {f}
       /\ ret' = Ret("~Fusion", f, <<>>, TRUE, <<>>)
  /\ UNCHANGED <<ACTIVE_FUSION, guards, eval_context>>

\* Fusion this(other);
CopyConstruct ==
  /\ ~crashed
  /\ \E this \in FusionIds \ constructed, other \in constructed :
       \E vmap \in ValClones(World, other), emap \in ExprClones(World, other) :
         LET r == copy(World, this, other, vmap, emap)
         IN /\ Commit(r)
            /\ constructed' = constructed \cup {this}
            /\ ret' = Ret("copy constructor", this, <<other>>, r.ok, <<>>)
  /\ UNCHANGED <<ACTIVE_FUSION, guards, eval_context>>

\* Fusion this(std::move(other));
MoveConstruct ==
  /\ ~crashed
  /\ \E this \in FusionIds \ constructed, other \in constructed :
       /\ Commit(moveConstruct(World, this, other))
       /\ constructed' = constructed \cup {this}
       /\ ret' = Ret("move constructor", this, <<other>>, TRUE, <<>>)
  /\ UNCHANGED <<ACTIVE_FUSION, guards, eval_context>>

\* this = other;
CopyAssign ==
  /\ ~crashed
  /\ \E this \in constructed, other \in constructed :
       \E vmap \in ValClones(World, other), emap \in ExprClones(World, other) :
         LET r == copyAssign(World, this, other, vmap, emap)
         IN /\ Commit(r)
            /\ ret' = Ret("copy assignment", this, <<other>>, r.ok, <<>>)
  /\ UNCHANGED <<constructed, ACTIVE_FUSION, guards, eval_context>>

\* this = std::move(other); `out` is the number of nodes `this` owned
MoveAssign ==
  /\ ~crashed
  /\ \E this \in constructed, other \in constructed :
       /\ Commit(moveAssign(World, this, other))
       /\ ret' = Ret("move assignment", this, <<other>>, TRUE,
                     <<Cardinality(fusions[this].val_set_) + Cardinality(fusions[this].expr_set_)>>)
  /\ UNCHANGED <<constructed, ACTIVE_FUSION, guards, eval_context>>

\* swap(a, b);
Swap ==
  /\ ~crashed
  /\ \E a \in constructed, b \in constructed :
       /\ Commit(swap(World, a, b))
       /\ ret' = Ret("swap", a, <<b>>, TRUE, <<>>)
  /\ UNCHANGED <<constructed, ACTIVE_FUSION, guards, eval_context>>

\* ---- the container under construction, removal and clear -------------------
\* One Fusion is built and taken apart under a FusionGuard, next to a second
\* Fusion that owns one Val made earlier under a guard of its own:
\*   Fusion other; { FusionGuard g(&other); new Float(); }
\*   Fusion fusion; FusionGuard fg(&fusion);
SymbolicKinds == {[vtype |-> "Scalar", value |-> 0, bcast |-> FALSE]}

EmptyWorld ==
  [fusions |-> [f \in FusionIds \cup {CopyTemp} |-> EmptyFusion],
   vals |-> [v \in ValIds |-> NoVal],
   exprs |-> [e \in ExprIds |-> NoExpr]]

OtherFusion == NumFusions

OtherWorld ==
  LET v == MaxVals
      W0 == [EmptyWorld EXCEPT !.vals[v] = [NoVal EXCEPT !.fusion_ = OtherFusion]]
  IN registerVal(W0, OtherFusion, v).w

\* DummyExpr(o, p, a, a), UnaryOp(o, a)
RegShapes ==
  UnaryShapes(LiveVals) \cup {s \in DummyShapes(LiveVals) : s.inputs_[1] = s.inputs_[2]}

Init ==
  /\ fusions = OtherWorld.fusions
  /\ vals = OtherWorld.vals
  /\ exprs = OtherWorld.exprs
  /\ constructed = FusionIds
  /\ ACTIVE_FUSION = 1
  /\ guards = <<FusionGuardCtor(None, 1).guard>>
  /\ crashed = FALSE
  /\ eval_context = EmptyContext
  /\ ret = Ret("FusionGuard", 1, <<>>, TRUE, <<>>)

\* ---- the container with input and output lists ------------------------------
\* The same Fusion, built from symbolic and constant scalars with operands of
\* its own, with Vals marked as inputs and outputs.
IOShapes == UnaryShapes(LocalVals)

NextIO ==
  \/ (fusions[1].val_name_counter_ < MaxCopyVals /\ NewVal(ScalarKinds))
  \/ NewExprOf(IOShapes)
  \/ RemoveVal({1})
  \/ AddInput({1})
  \/ AddOutput({1}, MaxIO)

SpecIO == Init /\ [][NextIO]_vars

\* ---- the graph under traversal ------------------------------------------------
\*   Fusion fusion; FusionGuard fg(&fusion); new TensorView(...); ...
\* the Fusion after n calls of `new TensorView`
RECURSIVE Tensors(_)
Tensors(n) ==
  IF n = 0 THEN EmptyWorld
  ELSE LET W == Tensors(n - 1)
           W0 == [W EXCEPT !.vals[n] = [NoVal EXCEPT !.fusion_ = 1, !.vtype = "TensorView"]]
           r == registerVal(W0, 1, n)
       IN [r.w EXCEPT !.vals[n].name_ = r.name]

InitTopo ==
  /\ fusions = Tensors(MaxVals).fusions
  /\ vals = Tensors(MaxVals).vals
  /\ exprs = Tensors(MaxVals).exprs
  /\ constructed = FusionIds
  /\ ACTIVE_FUSION = 1
  /\ guards = <<FusionGuardCtor(None, 1).guard>>
  /\ crashed = FALSE
  /\ eval_context = EmptyContext
  /\ ret = Ret("FusionGuard", 1, <<>>, TRUE, <<>>)

\* Exprs whose outputs are not among their inputs
NoSelfUse(shapes) ==
  {s \in shapes : SeqToSet(s.inputs_) \cap SeqToSet(s.outputs_) = {}}

\* UnaryOp(o, a) and DummyExpr(o, p, a, a) over the TensorViews, outputs, and
\* calls of exprs().
TopoShapes ==
  NoSelfUse(UnaryShapes(LocalVals)
              \cup {s \in DummyShapes(LocalVals) : s.inputs_[1] = s.inputs_[2]})

\* The calls that read the graph and change nothing in it.  One of them made
\* directly after another starts from the same graph as the first and reaches
\* no state the first does not reach, so the specifications take such a call
\* only after a call that is not one of them.
ReadOnlyCalls ==
  {"exprs", "traverseFrom", "BackwardVisitor::traverseFrom", "getAllValsBetween",
   "isDependencyOf", "getSingleDependencyChain", "printHeader",
   "used", "unordered_uses", "origin", "hasInput", "hasOutput"}

AfterChange == ret.op \notin ReadOnlyCalls

NextTopo ==
  \/ NewExprOf(TopoShapes)
  \/ AddOutput({1}, MaxOutputs)
  \/ (AfterChange /\ CallExprs({1}))

SpecTopo == InitTopo /\ [][NextTopo]_vars

\* UnaryOp(o, a) and BinaryOp(o, a, b) over the TensorViews, compute-at marks,
\* and calls of exprs().
OrderShapes ==
  NoSelfUse(UnaryShapes(LocalVals)
              \cup {s \in BinaryShapes(LocalVals) : s.inputs_[1] # s.inputs_[2]})

NextOrder ==
  \/ NewExprOf(OrderShapes)
  \/ ComputeAt
  \/ (AfterChange /\ CallExprs({1}))

SpecOrder == InitTopo /\ [][NextOrder]_vars

\* ---- several Fusions ----------------------------------------------------------
\* Fusions are constructed, copied, moved, swapped, cleared and destroyed while
\* guards make one or the other the active one and nodes are built in it.
OwnShapes == UnaryShapes(LocalVals)

NextOwn ==
  \/ NewVal(SymbolicKinds)
  \/ (/\ ACTIVE_FUSION # None
      /\ fusions[ACTIVE_FUSION].expr_name_counter_ < MaxCopyExprs
      /\ NewExprOf(OwnShapes))
  \/ GuardEnter(MaxGuards)
  \/ GuardExit
  \/ Clear(FusionIds)
  \/ Construct
  \/ Destroy
  \/ CopyConstruct
  \/ MoveConstruct
  \/ CopyAssign
  \/ MoveAssign
  \/ Swap

SpecOwn == Init /\ [][NextOwn]_vars

\* ---- a Fusion and its copy -------------------------------------------------------
\*   Fusion original_fusion; { FusionGuard fg(&original_fusion); ... }
\*   Fusion clone = original_fusion; ...; clone = original_fusion;
\* The Vals of the original are made before it is copied; it gets Exprs and
\* outputs and is pruned and cleared before and after it is copied.
InitCopy ==
  /\ fusions = EmptyWorld.fusions
  /\ vals = EmptyWorld.vals
  /\ exprs = EmptyWorld.exprs
  /\ constructed = {1}
  /\ ACTIVE_FUSION = 1
  /\ guards = <<FusionGuardCtor(None, 1).guard>>
  /\ crashed = FALSE
  /\ eval_context = EmptyContext
  /\ ret = Ret("FusionGuard", 1, <<>>, TRUE, <<>>)

\* new Float() while the Fusion has named fewer than cap Vals since its last clear
NewValUpTo(kinds, cap) ==
  /\ ACTIVE_FUSION # None
  /\ fusions[ACTIVE_FUSION].val_name_counter_ < cap
  /\ NewVal(kinds)

\* new UnaryOp(...) while the Fusion has named fewer than cap Exprs since its last clear
NewExprUpTo(shapes, cap) ==
  /\ ACTIVE_FUSION # None
  /\ fusions[ACTIVE_FUSION].expr_name_counter_ < cap
  /\ NewExprOf(shapes)

NextCopy ==
  \/ (constructed = {1} /\ NewValUpTo(SymbolicKinds, MaxCopyVals))
  \/ NewExprUpTo(UnaryShapes(LocalVals), MaxCopyExprs)
  \/ RemoveVal({1})
  \/ AddOutput({1}, MaxIO)
  \/ Clear({1})
  \/ CopyConstruct
  \/ CopyAssign
  \/ Destroy

SpecCopy == InitCopy /\ [][NextCopy]_vars


\* ---- the names of the statements ------------------------------------------------
\* Scalars and TensorViews are made and removed, Exprs are made, removed and
\* redefined, nodes are registered a second time (also a Val of the other
\* Fusion), and the Fusion is cleared.
NameKinds == SymbolicKinds \cup {[vtype |-> "TensorView", value |-> 0, bcast |-> FALSE]}

NextNames ==
  \/ (fusions[1].val_name_counter_ + fusions[1].val_type_name_map_ < MaxName /\ NewVal(NameKinds))
  \/ NewExprUpTo(UnaryShapes(LocalVals), MaxExprs)
  \/ RemoveExpr({1})
  \/ RemoveVal({1})
  \/ RegisterVal({1})
  \/ RegisterExpr({1})
  \/ Clear({1})

SpecNames == Init /\ [][NextNames]_vars

\* ---- nested guards ----------------------------------------------------------------
\*   Fusion fusion; Fusion fusion2;
\*   { FusionGuard fg(&fusion); ... { FusionGuard fg(&fusion2); ... } ... }
\* No guard is alive at the start; guards are nested up to MaxNest deep, and
\* Vals are made in whichever Fusion is active.
InitGuard ==
  /\ fusions = EmptyWorld.fusions
  /\ vals = EmptyWorld.vals
  /\ exprs = EmptyWorld.exprs
  /\ constructed = FusionIds
  /\ ACTIVE_FUSION = None
  /\ guards = <<>>
  /\ crashed = FALSE
  /\ eval_context = EmptyContext
  /\ ret = Ret("Fusion", NumFusions, <<>>, TRUE, <<>>)

NextGuard ==
  \/ GuardEnter(MaxNest)
  \/ GuardExit
  \/ Unwind
  \/ NewVal(SymbolicKinds)

SpecGuard == InitGuard /\ [][NextGuard]_vars

\* ---- two threads ------------------------------------------------------------------
\* Each thread constructs and destroys guards of its own and makes Vals; the
\* calls of the threads interleave in any order.
InitThreads ==
  /\ fusions = EmptyWorld.fusions
  /\ vals = EmptyWorld.vals
  /\ exprs = EmptyWorld.exprs
  /\ constructed = FusionIds
  /\ ACTIVE_FUSION = [t \in Threads |-> None]
  /\ guards = [t \in Threads |-> <<>>]
  /\ crashed = FALSE
  /\ eval_context = EmptyContext
  /\ ret = Ret("Fusion", NumFusions, <<>>, TRUE, <<>>)

NextThreads ==
  \/ ThreadGuardEnter
  \/ ThreadGuardExit
  \/ ThreadNewVal(SymbolicKinds)

SpecThreads == InitThreads /\ [][NextThreads]_vars

\* ---- dependencies ------------------------------------------------------------------
\* UnaryOp(o, a), BinaryOp(o, a, b) (also with a = b) and DummyExpr(o, p, a, a)
\* over the TensorViews, and the queries of DependencyCheck.
DepShapes ==
  NoSelfUse(UnaryShapes(LocalVals) \cup BinaryShapes(LocalVals)
              \cup {s \in DummyShapes(LocalVals) : s.inputs_[1] = s.inputs_[2]})

NextDeps ==
  \/ NewExprOf(DepShapes)
  \/ (AfterChange /\ CallIsDependencyOf)
  \/ (AfterChange /\ CallGetSingleDependencyChain)

SpecDeps == InitTopo /\ [][NextDeps]_vars

\* ---- expression evaluation ----------------------------------------------------------
\*   Fusion fusion; FusionGuard fg(&fusion); EvaluationContext eval_context(&fusion);
\* Integer scalars, unary and binary operations over them, bind and evaluate.
EvalShapes ==
  UnaryShapes(LocalVals)
    \cup NoSelfUse({s \in BinaryShapes(LocalVals) : s.inputs_[1] <= s.inputs_[2]})

NextEval ==
  \/ NewVal(ScalarKinds)
  \/ NewExprUpTo(EvalShapes, MaxCopyExprs)
  \/ Bind
  \/ Evaluate

SpecEval == InitCopy /\ [][NextEval]_vars

\* ---- evaluation under changing bindings ----------------------------------------------
\*   eval_context.bind(a, 7); ... checkIntValue(&eval_context, c, 10); ...
\*   eval_context.bind(a, 2); ... checkIntValue(&eval_context, c, 7);
\* Symbols and one operation over them; once the operation exists, bind and
\* checkIntValue in any order.
NextRebind ==
  \/ NewVal(SymbolicKinds)
  \/ NewExprUpTo(NoSelfUse(EvalShapes), MaxCopyExprs)
  \/ (fusions[eval_context.fusion_].expr_set_ # {} /\ Bind)
  \/ (fusions[eval_context.fusion_].expr_set_ # {} /\ CheckIntValue)

SpecRebind == InitCopy /\ [][NextRebind]_vars

\* ---- the header of the kernel ------------------------------------------------------
\*   fusion.addInput(..); fusion.addOutput(..); ... printKernel / printHeader
\* Scalars and TensorViews, unary operations, the input and output lists, and
\* the header printed in every state.
NextHeader ==
  \/ (Cardinality(LocalVals) < MaxCopyVals /\ NewVal(NameKinds))
  \/ NewExprUpTo(NoSelfUse(UnaryShapes(LocalVals)), MaxCopyExprs)
  \/ AddInput({1})
  \/ AddOutput({1}, MaxOutputs)
  \/ (AfterChange /\ PrintHeader({1}))

SpecHeader == InitCopy /\ [][NextHeader]_vars

\* ---- statements of another Fusion as arguments ----------------------------------------
\* Every call with a Val or an Expr argument, on the own and on a foreign
\* statement; the Fusion gets an input list or an output list.
NextChecked ==
  \/ NewValUpTo(SymbolicKinds, MaxCopyVals)
  \/ NewExprUpTo(UnaryShapes(LiveVals), MaxCopyExprs)
  \/ RemoveExpr({1})
  \/ RemoveVal({1})
  \/ (fusions[1].outputs_ = <<>> /\ AddInput({1}))
  \/ (fusions[1].inputs_ = <<>> /\ AddOutput({1}, MaxIO))
  \/ ReplaceInput({1})
  \/ ReplaceOutput({1})
  \/ (AfterChange /\ Query({1}))

SpecChecked == Init /\ [][NextChecked]_vars

\* ---- compute-at marks and Exprs with two outputs ---------------------------------------
\* UnaryOp, BinaryOp and DummyExpr over the TensorViews, compute-at marks,
\* outputs, and calls of exprs().
RespectShapes ==
  NoSelfUse(UnaryShapes(LocalVals)
              \cup {s \in BinaryShapes(LocalVals) : s.inputs_[1] < s.inputs_[2]}
              \cup {s \in DummyShapes(LocalVals) :
                      s.inputs_[1] = s.inputs_[2] /\ s.outputs_[1] < s.outputs_[2]})

NextRespect ==
  \/ NewExprUpTo(RespectShapes, MaxExprs)
  \/ ComputeAt
  \/ AddOutput({1}, MaxIO)
  \/ (AfterChange /\ CallExprs({1}))

SpecRespect == InitTopo /\ [][NextRespect]_vars

\* ---- traversals from any Vals ------------------------------------------------------------
\* UnaryOp, BinaryOp (also of one Val twice) and DummyExpr over the
\* TensorViews, and traversals from one or two of them.
VisitShapes ==
  NoSelfUse(UnaryShapes(LocalVals) \cup BinaryShapes(LocalVals)
              \cup {s \in DummyShapes(LocalVals) :
                      s.inputs_[1] = s.inputs_[2] /\ s.outputs_[1] < s.outputs_[2]})

NextVisit ==
  \/ NewExprUpTo(VisitShapes, MaxExprs)
  \/ (AfterChange /\ CallTraverseFrom({1}))

SpecVisit == InitTopo /\ [][NextVisit]_vars

\* ---- traversals that respect compute-at ---------------------------------------------------
\* UnaryOp and BinaryOp over the TensorViews, compute-at marks, and traversals.
NextAxis ==
  \/ NewExprUpTo(OrderShapes, MaxCopyExprs)
  \/ ComputeAt
  \/ (AfterChange /\ CallTraverseFrom({1}))

SpecAxis == InitTopo /\ [][NextAxis]_vars

\* ---- backward traversals -------------------------------------------------------------------
\* UnaryOp, BinaryOp and DummyExpr over the TensorViews, and backward
\* traversals from one or two of them.
NextBackward ==
  \/ NewExprUpTo(VisitShapes, MaxExprs)
  \/ (AfterChange /\ CallBackwardTraverseFrom({1}))

SpecBackward == InitTopo /\ [][NextBackward]_vars

\* ---- the Vals between ------------------------------------------------------------------
\* One UnaryOp or BinaryOp over the TensorViews, and getAllValsBetween with every
\* set of dependencies and one or two Vals in `of`.
NextBetween ==
  \/ NewExprUpTo(NoSelfUse(UnaryShapes(LocalVals) \cup BinaryShapes(LocalVals)), MaxCopyExprs)
  \/ (AfterChange /\ CallGetAllValsBetween)

SpecBetween == InitTopo /\ [][NextBetween]_vars

\* ---- the inputs of the outputs ----------------------------------------------------------
\* Scalars (symbolic and constant) and one UnaryOp made in Fusion 1 while it
\* is active, its inputs and outputs, and inputsOf and validateInputs of
\* Fusion 1 called with Fusion 1, another Fusion or no Fusion active.
NextInputs ==
  \/ GuardEnter(MaxGuards)
  \/ GuardExit
  \/ (ACTIVE_FUSION = 1 /\ NewValUpTo(ScalarKinds, MaxCopyVals))
  \/ (ACTIVE_FUSION = 1 /\ NewExprUpTo(NoSelfUse(UnaryShapes(LocalVals)), MaxCopyExprs))
  \/ AddInput({1})
  \/ AddOutput({1}, MaxIO)
  \/ CallInputsOf({1})
  \/ CallValidateInputs({1})

SpecInputs == InitGuard /\ [][NextInputs]_vars

Next ==
  \/ NewValUpTo(SymbolicKinds, MaxCopyVals)
  \/ NewExprUpTo(RegShapes, MaxExprs)
  \/ RemoveExpr({1})
  \/ RemoveVal({1})
  \/ Clear({1})

Spec == Init /\ [][Next]_vars

\* ==== the claims ============================================================
Inputs(e) == SeqToSet(exprs[e].inputs_)

Outputs(e) == SeqToSet(exprs[e].outputs_)

IOVals(f) == SeqToSet(fusions[f].inputs_) \cup SeqToSet(fusions[f].outputs_)

\* e1 produces a Val that e2 consumes
Produces(f, e1, e2) ==
  \E v \in ValIds : fusions[f].origin_[v] = e1 /\ v \in Inputs(e2)

RECURSIVE Saturate(_)
Saturate(R) ==
  LET R2 == R \cup {p \in ExprIds \X ExprIds :
                      \E b \in ExprIds : <<p[1], b>> \in R /\ <<b, p[2]>> \in R}
  IN IF R2 = R THEN R ELSE Saturate(R2)

\* no registered Expr depends on itself
Acyclic(f) ==
  LET R == Saturate({p \in fusions[f].expr_set_ \X fusions[f].expr_set_ :
                       Outputs(p[1]) \cap Inputs(p[2]) # {}})
  IN \A e \in ExprIds : <<e, e>> \notin R

\* the Exprs reached from the outputs over origin and input edges
RECURSIVE Reach(_, _)
Reach(f, S) ==
  LET S2 == S \cup ({fusions[f].origin_[v] : v \in UNION {Inputs(e) : e \in S}} \ {None})
  IN IF S2 = S THEN S ELSE Reach(f, S2)

ReachableFromOutputs(f) ==
  Reach(f, {fusions[f].origin_[o] : o \in SeqToSet(fusions[f].outputs_)} \ {None})

\* C1: on an acyclic graph, in the list that exprs(from_outputs_only, false,
\* respect_compute_at) returns, an Expr that produces a Val stands before
\* every Expr of the list that consumes the Val.
C1_ExprsTopologicallyOrdered ==
  (ret.op = "exprs" /\ ret.ok /\ ~ret.a[2] /\ Acyclic(ret.f)) =>
    \A i, j \in 1..Len(ret.out) :
      Produces(ret.f, ret.out[i], ret.out[j]) => i < j

\* exprs(.., false, true) has returned a producer and its consumer, and the
\* consumer reads first a TensorView that is computed at its output
C1_Witness ==
  /\ ret.op = "exprs" /\ ret.ok /\ ret.a[3] /\ Acyclic(ret.f)
  /\ Len(ret.out) = 2 /\ Produces(ret.f, ret.out[1], ret.out[2])
  /\ Len(exprs[ret.out[2]].inputs_) = 2
  /\ vals[exprs[ret.out[2]].inputs_[1]].compute_at_view_ = exprs[ret.out[2]].outputs_[1]
  /\ vals[exprs[ret.out[2]].inputs_[2]].compute_at_view_ = None

\* C2: in every Fusion, every Expr of the expression set is the origin of each
\* of its output Vals, and every Expr recorded as the origin of a Val is in
\* the expression set and has that Val among its outputs.
C2_OriginAgreesWithExprs ==
  \A f \in FusionIds :
    /\ \A e \in fusions[f].expr_set_ : \A o \in Outputs(e) : fusions[f].origin_[o] = e
    /\ \A v \in ValIds :
         fusions[f].origin_[v] # None =>
           /\ fusions[f].origin_[v] \in fusions[f].expr_set_
           /\ v \in Outputs(fusions[f].origin_[v])

\* C3: a call registerExpr(e2) whose operands are all registered, with an
\* output o whose origin is a registered Expr e1 other than e2, returns
\* without error; afterwards origin(o) = e2, e1 is out of the expression set,
\* in no uses set, and the origin of no Val.
C3_RedefinitionReplacesOrigin ==
  [][\A e2 \in ExprIds, s \in RegShapes, o \in ValIds, e1 \in ExprIds :
       LET f == ACTIVE_FUSION
       IN ( /\ NewExprCall(e2, s)
            /\ \A x \in SeqToSet(s.inputs_) \cup SeqToSet(s.outputs_) : ValInFusion(World, f, x)
            /\ o \in SeqToSet(s.outputs_)
            /\ fusions[f].origin_[o] = e1 /\ e1 # e2 /\ e1 \in fusions[f].expr_set_ )
          => /\ ret'.ok
             /\ e2 \in fusions'[f].expr_set_
             /\ fusions'[f].origin_[o] = e2
             /\ e1 \notin fusions'[f].expr_set_
             /\ \A v \in ValIds : e1 \notin fusions'[f].uses_[v] /\ fusions'[f].origin_[v] # e1
    ]_vars

\* C4: in every Fusion, e is in the uses set of v exactly when e is in the
\* expression set and v is one of e's inputs; so used(v) holds exactly when a
\* registered Expr consumes v.
C4_UsesAgreeWithExprs ==
  \A f \in FusionIds : \A v \in ValIds :
    /\ \A e \in ExprIds :
         e \in fusions[f].uses_[v] <=> (e \in fusions[f].expr_set_ /\ v \in Inputs(e))
    /\ used(World, f, v) <=> \E e \in fusions[f].expr_set_ : v \in Inputs(e)

\* C5: the list that exprs(true, ..) returns holds every Expr reached from a
\* registered output over origin and input edges, each once, and no other
\* Expr; with no output registered it is empty.
C5_ExprsFromOutputsOnly ==
  (ret.op = "exprs" /\ ret.ok /\ ret.a[1]) =>
    /\ NoDup(ret.out)
    /\ SeqToSet(ret.out) = ReachableFromOutputs(ret.f)
    /\ fusions[ret.f].outputs_ = <<>> => ret.out = <<>>

\* exprs(true, ..) has returned the one Expr between two registered outputs
\* and left out a registered Expr that no output reaches
C5_Witness ==
  /\ ret.op = "exprs" /\ ret.ok /\ ret.a[1]
  /\ Len(ret.out) = 1
  /\ SeqToSet(fusions[ret.f].outputs_) \cap Inputs(ret.out[1]) # {}
  /\ SeqToSet(fusions[ret.f].outputs_) \cap Outputs(ret.out[1]) # {}
  /\ fusions[ret.f].expr_set_ \ SeqToSet(ret.out) # {}

\* C6: removeVal(v) on a Val that is in the input list or the output list of
\* the Fusion throws, and the Fusions and the heap are as before the call.
C6_RemoveRegisteredIOFails ==
  [][(ret'.op = "removeVal" /\ ret'.a[1] \in IOVals(ret'.f))
       => (~ret'.ok /\ UNCHANGED <<fusions, vals, exprs>>)]_vars

\* a removeVal of an input or output that is produced or consumed by an Expr
\* has thrown
C6_Witness ==
  /\ ret.op = "removeVal" /\ ~ret.ok
  /\ ret.a[1] \in IOVals(ret.f)
  /\ (fusions[ret.f].origin_[ret.a[1]] # None \/ fusions[ret.f].uses_[ret.a[1]] # {})

\* C7: removeVal(v) of a registered Val that is, by identity, in neither the
\* input nor the output list returns without error; afterwards v is in
\* neither the value set nor the value sequence, its producing Expr and its
\* consumers are out of the expression set, and no registered Expr has v among
\* its inputs or outputs.
C7_RemoveValRemoves ==
  [][LET f == ret'.f
         v == ret'.a[1]
     IN (ret'.op = "removeVal" /\ ValInFusion(World, f, v) /\ v \notin IOVals(f))
        => /\ ret'.ok
           /\ v \notin fusions'[f].val_set_
           /\ v \notin SeqToSet(fusions'[f].val_deque_)
           /\ fusions[f].origin_[v] # None => fusions[f].origin_[v] \notin fusions'[f].expr_set_
           /\ \A e \in fusions[f].uses_[v] : e \notin fusions'[f].expr_set_
           /\ \A e \in fusions'[f].expr_set_ :
                v \notin SeqToSet(exprs'[e].inputs_) \cup SeqToSet(exprs'[e].outputs_)
    ]_vars

\* C8: no Val of the input list of a Fusion has a producing Expr.
C8_InputsHaveNoOrigin ==
  \A f \in FusionIds : \A i \in 1..Len(fusions[f].inputs_) :
    fusions[f].origin_[fusions[f].inputs_[i]] = None

\* C9: after a move construction from F, or a move assignment from F into
\* another Fusion D, F has no Val, no Expr, no input and no output; D has the
\* sets, the sequence, the maps, the lists and the counters F had, over the
\* same nodes, which now name D as their Fusion; and clear() on F then changes
\* nothing in any Fusion or node.
C9_MoveLeavesSourceEmpty ==
  [][(ret'.op \in {"move constructor", "move assignment"} /\ ret'.a[1] # ret'.f) =>
       LET F == ret'.a[1]
           D == ret'.f
           after == [fusions |-> fusions', vals |-> vals', exprs |-> exprs']
       IN /\ fusions'[F].val_set_ = {} /\ fusions'[F].expr_set_ = {}
          /\ fusions'[F].inputs_ = <<>> /\ fusions'[F].outputs_ = <<>>
          /\ fusions'[D] = fusions[F]
          /\ \A v \in fusions[F].val_set_ : vals'[v] = [vals[v] EXCEPT !.fusion_ = D]
          /\ \A e \in fusions[F].expr_set_ : exprs'[e] = [exprs[e] EXCEPT !.fusion_ = D]
          /\ clear(after, F).ok /\ clear(after, F).w = after
    ]_vars

\* a Fusion with a Val and an Expr has been move-assigned into a Fusion that
\* owned nodes of its own
C9_Witness ==
  /\ ret.op = "move assignment" /\ ret.a[1] # ret.f
  /\ ret.out[1] > 0
  /\ fusions[ret.f].expr_set_ # {}
  /\ fusions[ret.a[1]].val_set_ = {}

C10_Witness ==
  /\ ret.op = "swap" /\ ret.a[1] # ret.f
  /\ fusions[ret.f].expr_set_ # {} /\ fusions[ret.a[1]].expr_set_ # {}
  /\ fusions[ret.f].val_name_counter_ = fusions[ret.a[1]].val_name_counter_

\* the Fusion record C is the image of the Fusion record O under the tables
\* vm (Vals) and em (Exprs)
ImageOf(C, O, vm, em) ==
  /\ C.val_set_ = {vm[v] : v \in O.val_set_}
  /\ C.expr_set_ = {em[e] : e \in O.expr_set_}
  /\ C.val_deque_ = [i \in 1..Len(O.val_deque_) |-> vm[O.val_deque_[i]]]
  /\ \A v \in O.val_set_ :
       /\ C.origin_[vm[v]] = CloneOf(em, O.origin_[v])
       /\ C.uses_[vm[v]] = {CloneOf(em, e) : e \in O.uses_[v]}
  /\ \A v \in ValIds \ C.val_set_ : C.origin_[v] = None /\ C.uses_[v] = {}
  /\ C.inputs_ = [i \in 1..Len(O.inputs_) |-> vm[O.inputs_[i]]]
  /\ C.outputs_ = [i \in 1..Len(O.outputs_) |-> vm[O.outputs_[i]]]
  /\ C.val_type_name_map_ = O.val_type_name_map_
  /\ C.val_name_counter_ = O.val_name_counter_
  /\ C.expr_name_counter_ = O.expr_name_counter_

MutatingOps ==
  {"registerVal", "registerExpr", "removeVal", "removeExpr", "clear", "addInput", "addOutput"}

\* C11: a copy construction or copy assignment of a Fusion O returns without
\* error and leaves a Fusion that is the image of O under one table from the
\* nodes of O to new nodes, each clone holding what its original holds; the
\* clones are no nodes of O, and O is as before.  A later call that mutates a
\* Fusion changes no other Fusion and no node of another Fusion.
C11_CopyIsIsolatedImage ==
  [][/\ (ret'.op \in {"copy constructor", "copy assignment"}) =>
          LET c == ret'.f
              o == ret'.a[1]
              O == fusions[o]
          IN /\ ~crashed' /\ ret'.ok
             /\ \E vm \in Injections(O.val_set_, ValIds), em \in Injections(O.expr_set_, ExprIds) :
                  /\ ImageOf(fusions'[c], O, vm, em)
                  /\ \A v \in O.val_set_ :
                       /\ vals'[vm[v]].fusion_ = c
                       /\ vals'[vm[v]].name_ = vals[v].name_
                       /\ vals'[vm[v]].vtype = vals[v].vtype
                       /\ vals'[vm[v]].value = vals[v].value
                  /\ \A e \in O.expr_set_ :
                       /\ exprs'[em[e]].fusion_ = c
                       /\ exprs'[em[e]].name_ = exprs[e].name_
                       /\ exprs'[em[e]].inputs_ =
                            [i \in 1..Len(exprs[e].inputs_) |-> vm[exprs[e].inputs_[i]]]
                       /\ exprs'[em[e]].outputs_ =
                            [i \in 1..Len(exprs[e].outputs_) |-> vm[exprs[e].outputs_[i]]]
             /\ c # o =>
                  /\ fusions'[o] = O
                  /\ fusions'[c].val_set_ \cap O.val_set_ = {}
                  /\ fusions'[c].expr_set_ \cap O.expr_set_ = {}
                  /\ \A v \in O.val_set_ : vals'[v] = vals[v]
                  /\ \A e \in O.expr_set_ : exprs'[e] = exprs[e]
     /\ (ret'.op \in MutatingOps) =>
          \A g \in FusionIds \ {ret'.f} :
            /\ fusions'[g] = fusions[g]
            /\ \A v \in fusions[g].val_set_ : vals'[v] = vals[v]
            /\ \A e \in fusions[g].expr_set_ : exprs'[e] = exprs[e]
    ]_vars

\* C12: after clear() the value set, the value sequence, the expression set,
\* the origin map, the uses map, the input list and the output list of the
\* Fusion are empty and its name counters are 0, every node it owned is freed,
\* and the next Val of either kind and the next Expr would be named 0.
C12_ClearEmpties ==
  [][(ret'.op = "clear") =>
       LET f == ret'.f
           after == [fusions |-> fusions', vals |-> vals', exprs |-> exprs']
       IN /\ fusions'[f].val_set_ = {} /\ fusions'[f].val_deque_ = <<>>
          /\ fusions'[f].expr_set_ = {}
          /\ \A v \in ValIds : fusions'[f].origin_[v] = None /\ fusions'[f].uses_[v] = {}
          /\ fusions'[f].uses_keys_ = {}
          /\ fusions'[f].inputs_ = <<>> /\ fusions'[f].outputs_ = <<>>
          /\ fusions'[f].val_type_name_map_ = 0
          /\ fusions'[f].val_name_counter_ = 0
          /\ fusions'[f].expr_name_counter_ = 0
          /\ \A v \in fusions[f].val_set_ : vals'[v] = NoVal
          /\ \A e \in fusions[f].expr_set_ : exprs'[e] = NoExpr
          /\ getValName(after, f, "Scalar").name = 0
          /\ getValName(after, f, "TensorView").name = 0
          /\ getExprName(after, f).name = 0
    ]_vars

\* clear() has emptied a Fusion that owned at least two nodes
C12_Witness ==
  /\ ret.op = "clear" /\ ~crashed
  /\ ret.out[1] >= 2
  /\ fusions[ret.f].val_set_ = {} /\ fusions[ret.f].expr_name_counter_ = 0

\* in every Fusion the registered Vals of one kind have different names below
\* the counter of the kind, and the registered Exprs have different names
\* below the Expr counter
NamesDistinct ==
  \A f \in FusionIds :
    /\ \A v \in fusions[f].val_set_ :
         /\ vals[v].name_ < ValCounter(fusions[f], vals[v].vtype)
         /\ \A w \in fusions[f].val_set_ \ {v} :
              vals[w].vtype = vals[v].vtype => vals[w].name_ # vals[v].name_
    /\ \A e \in fusions[f].expr_set_ :
         /\ exprs[e].name_ < fusions[f].expr_name_counter_
         /\ \A d \in fusions[f].expr_set_ \ {e} : exprs[d].name_ # exprs[e].name_

Counters(F) == <<F.val_type_name_map_, F.val_name_counter_, F.expr_name_counter_>>

\* C13: a new Val gets the value of the counter of its kind and advances that
\* counter by one, a new Expr gets the value of the Expr counter and advances
\* it by one, and nothing else advances a counter: not removeVal, not
\* removeExpr, not the removal of the Expr that a new Expr redefines.  So between two clears the names of a kind are handed out
\* in increasing order without gaps, registered statements of a kind never
\* share a name, and no name is handed out twice.  Registering a registered
\* Val or Expr again returns its name and changes nothing.
C13_NamesMonotonic ==
  [][LET f == ret'.f
         F == fusions[f]
     IN /\ NamesDistinct'
        /\ (ret'.op = "registerVal" /\ ret'.ok /\ ~crashed') =>
             LET v == ret'.a[1]
                 k == vals'[v].vtype
             IN /\ vals'[v].name_ = ValCounter(F, k)
                /\ ValCounter(fusions'[f], k) = ValCounter(F, k) + 1
                /\ \A j \in {"Scalar", "TensorView"} \ {k} :
                     ValCounter(fusions'[f], j) = ValCounter(F, j)
                /\ fusions'[f].expr_name_counter_ = F.expr_name_counter_
        /\ (ret'.op = "registerExpr" /\ ret'.ok /\ ~crashed') =>
             /\ exprs'[ret'.a[1]].name_ = F.expr_name_counter_
             /\ Counters(fusions'[f]) = [Counters(F) EXCEPT ![3] = @ + 1]
        /\ (ret'.op \in {"removeVal", "removeExpr"}) =>
             Counters(fusions'[f]) = Counters(F)
        /\ (ret'.op = "registerVal again" /\ ret'.ok) =>
             /\ ret'.out[1] = vals[ret'.a[1]].name_
             /\ UNCHANGED <<fusions, vals, exprs>>
        /\ (ret'.op = "registerExpr again" /\ ret'.ok) =>
             /\ ret'.out[1] = exprs[ret'.a[1]].name_
             /\ UNCHANGED <<fusions, vals, exprs>>
    ]_vars

\* a Val has been registered after a Val of its kind was removed, at the
\* address of a removed Val, and got a name that is not below the number of
\* registered Vals of its kind
C13_Witness ==
  /\ ret.op = "registerVal" /\ ret.ok /\ ~crashed
  /\ LET v == ret.a[1]
         same == {w \in fusions[ret.f].val_set_ : vals[w].vtype = vals[v].vtype}
     IN /\ vals[v].name_ >= Cardinality(same)
        /\ vals[v].name_ = 2
        /\ \E w \in same : w > v

\* the Fusion of the innermost live guard; nullptr, the value ACTIVE_FUSION
\* starts with, when no guard is alive
InnermostFusion == IF guards = <<>> THEN None ELSE guards[Len(guards)].fusion

\* C14: with guards destroyed in reverse order of their construction, one at
\* a time or several at once by an exception, getCurFusion returns the Fusion
\* of the innermost live guard, and right after a guard is destroyed the
\* active Fusion is the one that was active right before the guard was
\* constructed: the Fusion of the guard that is now the innermost, or nullptr
\* when none is left.
C14_GuardsRestore ==
  [][/\ guards' # <<>> => getCurFusion(ACTIVE_FUSION') = InnermostFusion'
     /\ (ret'.op \in {"~FusionGuard", "unwind"}) =>
          /\ Len(guards') < Len(guards)
          /\ getCurFusion(ACTIVE_FUSION') = InnermostFusion'
          /\ getCurFusion(ACTIVE_FUSION') = guards[Len(guards') + 1].prev_fusion
     /\ (ret'.op = "registerVal" /\ ret'.ok) =>
          vals'[ret'.a[1]].fusion_ = InnermostFusion
    ]_vars

\* an exception has destroyed two guards of one Fusion and left a guard of
\* the other Fusion, which is active again
C14_Witness ==
  /\ ret.op = "unwind" /\ ret.out[1] = 2
  /\ guards # <<>>
  /\ ret.a[1] # ACTIVE_FUSION
  /\ ACTIVE_FUSION = guards[Len(guards)].fusion

\* the Fusion of the innermost live guard of thread t
InnermostOf(t) ==
  IF guards[t] = <<>> THEN None ELSE guards[t][Len(guards[t])].fusion

\* C15: under every interleaving of the guard constructions and destructions
\* of the threads, getCurFusion on a thread returns the Fusion of the innermost
\* live guard of that thread (nullptr when it has none), whatever the other
\* threads do; a Val made by a thread is registered in that Fusion, so a
\* thread whose guards all name one Fusion registers nothing in another.
C15_ActiveFusionThreadConfined ==
  [][/\ \A t \in Threads :
          getCurFusion(ACTIVE_FUSION'[ThreadLocal(t)]) = InnermostOf(t)'
     /\ (ret'.op = "registerVal") =>
          LET v == ret'.a[1]
              t == ret'.a[2]
          IN /\ ret'.ok
             /\ vals'[v].fusion_ = InnermostOf(t)
             /\ v \in fusions'[InnermostOf(t)].val_set_
             /\ \A f \in FusionIds \ {InnermostOf(t)} : fusions'[f] = fusions[f]
             /\ \A f \in FusionIds :
                  (\A i \in 1..Len(guards[t]) : guards[t][i].fusion = f) => vals'[v].fusion_ = f
    ]_vars

\* thread 1 has made a Val in its Fusion while thread 2, which has made a Val
\* in the other Fusion, holds a guard of that other Fusion
C15_Witness ==
  /\ ret.op = "registerVal" /\ ret.ok /\ ret.a[2] = 1 /\ ret.f = 1
  /\ guards[2] # <<>> /\ InnermostOf(2) = 2
  /\ fusions[2].val_set_ # {}
  /\ \A i \in 1..Len(guards[1]) : guards[1][i].fusion = 1

\* the Vals reached from the Vals S over origin and input edges
RECURSIVE ValReach(_, _)
ValReach(f, S) ==
  LET S2 == S \cup UNION {Inputs(fusions[f].origin_[v]) : v \in {x \in S : fusions[f].origin_[x] # None}}
  IN IF S2 = S THEN S ELSE ValReach(f, S2)

\* C16: in an acyclic Fusion, for distinct Vals X and Y, isDependencyOf(X, Y)
\* returns true exactly when X is reached from Y over origin and input edges,
\* and isDependencyOf(X, Y) and isDependencyOf(Y, X) are not both true.
C16_IsDependencyOfIsReachability ==
  (ret.op = "isDependencyOf" /\ ret.ok /\ Acyclic(ret.f) /\ ret.a[1] # ret.a[2]) =>
    LET X == ret.a[1]
        Y == ret.a[2]
    IN /\ ret.out[1] <=> X \in ValReach(ret.f, {Y})
       /\ ret.out[1] = isDependencyOf(World, X, Y).value
       /\ ~(ret.out[1] /\ isDependencyOf(World, Y, X).value)

\* isDependencyOf(X, Y) has returned true where X is reached from Y on two
\* ways, directly and over a third Val
C16_Witness ==
  /\ ret.op = "isDependencyOf" /\ ret.ok /\ Acyclic(ret.f) /\ ret.a[1] # ret.a[2]
  /\ ret.out[1]
  /\ LET e == fusions[ret.f].origin_[ret.a[2]]
     IN /\ e # None
        /\ ret.a[1] \in Inputs(e)
        /\ \E m \in Inputs(e) \ {ret.a[1]} : ret.a[1] \in ValReach(ret.f, {m})

\* C17: in an acyclic Fusion, getSingleDependencyChain(dep, of) returns the
\* empty chain when dep is not reached from `of` over origin and input edges;
\* otherwise a chain that starts with dep, ends with `of`, and in which every
\* Val is an input of the Expr that produces the next one.
C17_ChainIsProducerConsumerPath ==
  (ret.op = "getSingleDependencyChain" /\ ret.ok /\ Acyclic(ret.f)) =>
    LET dep == ret.a[1]
        of == ret.a[2]
        chain == ret.out
    IN IF dep \notin ValReach(ret.f, {of}) THEN chain = <<>>
       ELSE /\ chain # <<>>
            /\ chain[1] = dep /\ chain[Len(chain)] = of
            /\ \A i \in 1..(Len(chain) - 1) :
                 /\ fusions[ret.f].origin_[chain[i + 1]] # None
                 /\ chain[i] \in Inputs(fusions[ret.f].origin_[chain[i + 1]])

\* a chain over three Vals has been returned
C17_Witness ==
  /\ ret.op = "getSingleDependencyChain" /\ ret.ok /\ Acyclic(ret.f)
  /\ Len(ret.out) = 3
  /\ ret.out[1] = ret.a[1] /\ ret.out[3] = ret.a[2]

\* ---- C18 ----------------------------------------------------------------------
Symbolic(v) == vals[v].vtype = "Scalar" /\ vals[v].value = 0

\* v is an unbound symbol without an origin, or derived from one
RECURSIVE Unresolved(_)
Unresolved(v) ==
  /\ Symbolic(v) /\ ~eval_context.bindings_[v].has_value
  /\ LET e == fusions[eval_context.fusion_].origin_[v]
     IN e = None \/ \E i \in DOMAIN exprs[e].inputs_ : Unresolved(exprs[e].inputs_[i])

\* C18: bind(v, n) succeeds when v is a symbolic scalar with no origin Expr,
\* and an evaluate(v) that finds v bound to n returns n; bind throws when v
\* has an origin Expr or is a constant, and leaves the bindings as they were;
\* evaluate of an unbound symbol without an origin, or of a Val derived from
\* one, returns 'no value' and does not throw.
C18_BindRules ==
  [][/\ ret'.op = "bind" =>
          LET v == ret'.a[1]
              n == ret'.a[2]
          IN IF Symbolic(v) /\ fusions[eval_context.fusion_].origin_[v] = None
             THEN /\ ret'.ok
                  /\ eval_context'.bindings_ = [eval_context.bindings_ EXCEPT ![v] = optional(n)]
             ELSE /\ ~ret'.ok
                  /\ eval_context'.bindings_ = eval_context.bindings_
     /\ (ret'.op = "evaluate" /\ ~crashed') =>
          LET v == ret'.a[1]
          IN /\ ret'.ok
             /\ (Symbolic(v) /\ eval_context.bindings_[v].has_value)
                  => ret'.out = <<eval_context.bindings_[v]>>
             /\ Unresolved(v) => ret'.out = <<nullopt>>
             /\ eval_context'.bindings_ = eval_context.bindings_
    ]_vars

\* a bind to a Val with an origin has thrown while another symbol is bound
C18_Witness ==
  /\ ret.op = "bind" /\ ~ret.ok
  /\ fusions[eval_context.fusion_].origin_[ret.a[1]] # None
  /\ \E u \in ValIds : eval_context.bindings_[u].has_value

\* ---- C19 ----------------------------------------------------------------------
\* the value of v under the bindings the context holds now
RECURSIVE ValueOf(_)
ValueOf(v) ==
  LET e == fusions[eval_context.fusion_].origin_[v]
      ins == [i \in DOMAIN exprs[e].inputs_ |-> ValueOf(exprs[e].inputs_[i])]
  IN IF ~Symbolic(v)
       THEN IF vals[v].vtype = "Scalar" THEN optional(vals[v].value) ELSE nullopt
     ELSE IF eval_context.bindings_[v].has_value THEN eval_context.bindings_[v]
     ELSE IF e = None \/ \E i \in DOMAIN ins : ~ins[i].has_value THEN nullopt
     ELSE IF Len(ins) = 1 THEN optional(0 - ins[1].value)
     ELSE optional(ins[1].value + ins[2].value)

Separated(params) ==
  IF params = <<>> THEN <<>>
  ELSE [i \in 1..(2 * Len(params) - 1) |->
          IF i % 2 = 1 THEN params[(i + 1) \div 2] ELSE Comma]

\* C20: the header lists one parameter for each entry of the input list in
\* list order, then one for each entry of the output list in list order, then
\* seed and offset if and only if hasRNG(), then the workspace pointer and the
\* sync flags if and only if hasGridReduction(), with one comma between every
\* two neighbours, also when a Val is listed more than once.
C20_HeaderParameters ==
  (ret.op = "printHeader" /\ ret.ok) =>
     LET vals_ == fusions[ret.f].inputs_ \o fusions[ret.f].outputs_
         params == [i \in DOMAIN vals_ |-> Param(vals[vals_[i]].vtype, vals_[i])]
                   \o (IF ret.a[1] THEN <<Param("seed", None), Param("offset", None)>>
                       ELSE <<>>)
                   \o (IF ret.a[2] THEN <<Param("work_buf", None), Param("sync_flags", None)>>
                       ELSE <<>>)
     IN ret.out = Separated(params)

\* ---- C21 ----------------------------------------------------------------------
ValArgOps ==
  {"addInput", "addOutput", "removeVal", "used", "unordered_uses", "origin",
   "hasInput", "hasOutput", "replaceInput", "replaceOutput"}

\* C21: every operation with a Val or Expr argument fails when that statement
\* is not registered in the Fusion it is called on (for replaceInput and
\* replaceOutput both arguments, for registerExpr the operands), so the input
\* and the output list only hold Vals of the value set of their Fusion.
C21_ForeignStatementsRejected ==
  [][~crashed' =>
       /\ ( /\ ret'.op \in ValArgOps
            /\ \E i \in DOMAIN ret'.a : ~ValInFusion(World, ret'.f, ret'.a[i]) )
          => ~ret'.ok
       /\ (ret'.op = "removeExpr" /\ ~ExprInFusion(World, ret'.f, ret'.a[1]))
          => ~ret'.ok
       /\ (ret'.op = "registerExpr" /\ ret'.ok)
          => \A v \in SeqToSet(exprs'[ret'.a[1]].inputs_)
                        \cup SeqToSet(exprs'[ret'.a[1]].outputs_) :
               ValInFusion(World, ret'.f, v)
       /\ \A f \in constructed : IOVals(f)' \subseteq fusions'[f].val_set_
    ]_vars

\* ---- C22 ----------------------------------------------------------------------
Count(s, x) == Cardinality({i \in DOMAIN s : s[i] = x})

\* the Vals exprs(from_outputs_only, ..) starts from, and the Exprs below them
StartVals(f, from_outputs_only) ==
  IF from_outputs_only THEN SeqToSet(fusions[f].outputs_)
  ELSE {v \in fusions[f].val_set_ : fusions[f].uses_[v] = {}}

ReachableExprs(f, from_outputs_only) ==
  Reach(f, {fusions[f].origin_[v] : v \in StartVals(f, from_outputs_only)} \ {None})

StmtsBelow(f, S) ==
  LET V == ValReach(f, S)
  IN {<<"Val", v>> : v \in V} \cup {<<"Expr", fusions[f].origin_[v]>> : v \in {x \in V : fusions[f].origin_[x] # None}}

\* C23: a traverseFrom with traverseAllPaths=false that returns has handed
\* every Val and every Expr below the start Vals to handle exactly once.
C23_HandledExactlyOnce ==
  (ret.op = "traverseFrom" /\ ret.ok /\ ~ret.a[2]) =>
    /\ SeqToSet(ret.out) = StmtsBelow(ret.f, SeqToSet(ret.a[1]))
    /\ NoDup(ret.out)

\* ---- C24 ----------------------------------------------------------------------
FirstIndex(s, x) == Min({i \in DOMAIN s : s[i] = x})

\* the compute-at axis of input x relative to out, -1 when x is not computed at out
AxisAt(x, out) ==
  IF vals[x].compute_at_view_ = out THEN vals[x].relative_compute_at_axis_ ELSE -1

C25_BackwardOrder ==
  (ret.op = "BackwardVisitor::traverseFrom") =>
    LET f == ret.f
        from == ret.a[1]
        forward == traverseFrom(World, f, from, FALSE, FALSE).exprs
        below == ValReach(f, SeqToSet(from))
        open == \E e \in SeqToSet(forward) : ~(Outputs(e) \subseteq below)
    IN /\ (Acyclic(f) /\ open) => (~ret.ok /\ ~crashed)
       /\ (Acyclic(f) /\ ~open) => ret.ok
       /\ ret.ok =>
            /\ SeqToSet(ret.out) = StmtsBelow(f, SeqToSet(from))
            /\ \A k \in DOMAIN ret.out :
                 IF ret.out[k][1] = "Val"
                 THEN \A e \in SeqToSet(forward) :
                        ret.out[k][2] \in Inputs(e)
                          => \E j \in 1..(k - 1) : ret.out[j] = <<"Expr", e>>
                 ELSE \A o \in Outputs(ret.out[k][2]) :
                        \E j \in 1..(k - 1) : ret.out[j] = <<"Val", o>>
            /\ \A v \in below :
                 LET n == BackwardVisitor_nextVal(World, f, v, forward)
                 IN /\ {n[i][2] : i \in DOMAIN n} = {e \in SeqToSet(forward) : v \in Inputs(e)}
                    /\ \A i, j \in DOMAIN n :
                         i < j => FirstIndex(forward, n[i][2]) < FirstIndex(forward, n[j][2])

\* a backward traversal has handled a Val with two consumers, one of them
\* below the other, after both
C25_Witness ==
  /\ ret.op = "BackwardVisitor::traverseFrom" /\ ret.ok /\ Acyclic(ret.f)
  /\ \E v \in ValIds, e1, e2 \in fusions[ret.f].expr_set_ :
       /\ e1 # e2 /\ v \in Inputs(e1) /\ v \in Inputs(e2)
       /\ Outputs(e1) \cap Inputs(e2) # {}
       /\ \E i, j, k \in DOMAIN ret.out :
            /\ ret.out[i] = <<"Expr", e2>> /\ ret.out[j] = <<"Expr", e1>>
            /\ ret.out[k] = <<"Val", v>> /\ i < j /\ j < k

\* ---- C26 ----------------------------------------------------------------------
\* the Vals on a producer-to-consumer path from a member of `dependencies` to
\* a member of `of`, the endpoints included
ValsBetween(f, dependencies, of) ==
  {v \in ValReach(f, of) : ValReach(f, {v}) \cap dependencies # {}}

\* C26: getAllValsBetween(dependencies, of) on an acyclic graph returns
\* exactly the Vals on some path from a member of `dependencies` to a member
\* of `of`, and no Val that is off every such path.
C26_ExactlyValsBetween ==
  (ret.op = "getAllValsBetween" /\ ret.ok /\ Acyclic(ret.f)) =>
    ret.out[1] = ValsBetween(ret.f, ret.a[1], SeqToSet(ret.a[2]))

\* the part of C26 that holds: every Val on a path that meets no second
\* dependency is returned
C26_PathsAreReturned ==
  (ret.op = "getAllValsBetween" /\ ret.ok /\ Acyclic(ret.f) /\ Cardinality(ret.a[1]) <= 1) =>
    ValsBetween(ret.f, ret.a[1], SeqToSet(ret.a[2])) \subseteq ret.out[1]

\* the returned Vals are the Vals below `of` that are reached without
\* passing a dependency
C26_ReturnedAreBelow ==
  (ret.op = "getAllValsBetween" /\ ret.ok /\ Acyclic(ret.f)) =>
    ret.out[1] \subseteq ValReach(ret.f, SeqToSet(ret.a[2]))

\* ---- C27 ----------------------------------------------------------------------
\* C27: the producer/consumer graph of every Fusion is acyclic: no registered
\* Expr is reached from itself over origin and input edges.
C27_GraphIsAcyclic == \A f \in constructed : Acyclic(f)

\* ---- C28 ----------------------------------------------------------------------
\* the statements directly before a statement: the origin of a Val, the
\* inputs of an Expr
Predecessors(f, stmt) ==
  IF stmt[1] = "Val"
  THEN {<<"Expr", e>> : e \in {fusions[f].origin_[stmt[2]]} \ {None}}
  ELSE {<<"Val", v>> : v \in Inputs(stmt[2])}

C29_FailedRegisterExprChangesNothing ==
  [][(ret'.op = "registerExpr" /\ ~ret'.ok) =>
       \A f \in FusionIds :
         /\ fusions'[f].expr_set_ = fusions[f].expr_set_
         /\ fusions'[f].origin_ = fusions[f].origin_
         /\ fusions'[f].uses_ = fusions[f].uses_]_vars

\* ---- C30 ----------------------------------------------------------------------
\* the Vals without origin below S in Fusion f
OriginlessBelow(f, S) == {v \in ValReach(f, S) : fusions[f].origin_[v] = None}

\* what inputsOf and validateInputs are to do, whatever Fusion is active
InputsOfAsClaimed ==
  /\ (ret.op = "inputsOf" /\ Acyclic(ret.f)) =>
       /\ ~crashed
       /\ ret.ok = (ret.a[1] \in SeqToSet(fusions[ret.f].outputs_))
       /\ ret.ok => ret.out[1] = OriginlessBelow(ret.f, {ret.a[1]})
  /\ (ret.op = "validateInputs" /\ Acyclic(ret.f)) =>
       /\ ~crashed
       /\ ret.ok = ~(\E v \in OriginlessBelow(ret.f, SeqToSet(fusions[ret.f].outputs_)) :
                      /\ ~(vals[v].vtype = "Scalar" /\ vals[v].value # 0)
                      /\ v \notin SeqToSet(fusions[ret.f].inputs_))

\* C30: inputsOf(out) of a Fusion returns the Vals without origin below the
\* registered output `out`, and validateInputs fails exactly when a Val
\* without origin below an output is neither a constant nor an input,
\* whichever Fusion, if any, is active at the call.
C30_IndependentOfActiveFusion == InputsOfAsClaimed

\* the part of C30 that holds: the calls made while their own Fusion is the
\* active one
C30_WhenOwnFusionActive ==
  (ret.op \in {"inputsOf", "validateInputs"} /\ ret.a[Len(ret.a)] = ret.f) => InputsOfAsClaimed


====
